---- MODULE Spec2Model ----
(***************************************************************************)
(* State-machine model of the OutlookScraper React component               *)
(* (src/unnamed/part_000).  React state cells are variables; every event   *)
(* handler, effect and promise continuation is one action.  A fetch that   *)
(* is awaited splits its handler into the part before the await and the    *)
(* continuation that runs when the response arrives; the response itself   *)
(* (HTTP ok or not, payload) is an input drawn with \E.                    *)
(*                                                                         *)
(* The component is large and its features are independent, so each        *)
(* feature has its own specification over the shared variables:            *)
(*   SpecListing   email listing, cache fallback, mount pre-load           *)
(*   SpecQuery     the listing's query strings, inputs drawn in Init       *)
(*   SpecDebounce  useDebounce and the auto-search effects                 *)
(*   SpecTags      candidate tags (list row and profile view)              *)
(*   SpecNotes     candidate notes (draft buffer, blur, persist)           *)
(*   SpecSession   session gate, logout, folder/email/statistics loaders   *)
(*   SpecTimers    timers and intervals across the unmount                 *)
(*   SpecNotif     notification poller and toasts                          *)
(*   SpecSettings  scheduler toggle, form and Save Settings                *)
(*   SpecClear     the clear-data modal                                    *)
(*   SpecRunNow    the scheduler's Run Now button and its 3 s timer        *)
(*   SpecDesktop   the Electron shell (src/electron/main.js): startup,     *)
(*                 backend child, windows, tray, quit                      *)
(***************************************************************************)
EXTENDS Integers, Sequences, FiniteSets, TLC

\* ------------------------------------------------------------------ bounds
\* loadEmails calls made in one run of the listing specification.
MaxRequests == 3

\* Time horizon of the debounce specification, in steps of TimeStep.
MaxTicks == 7
\* Fetches the user starts by hand (submit, sidebar) in one debounce run.
MaxUserFetches == 2

\* Longest tag list of a candidate, and tag saves awaiting their response.
MaxTags == 2
MaxSaves == 2
\* Requests of one kind awaiting their response: profile loads, notification
\* loads, scheduler status loads, clear-data requests.
MaxLoads == 1
\* Failure notices of the candidate views whose 4 s timers are still running.
MaxNotices == 1
\* Notifications the backend creates, and interval ticks of the poll.
MaxNotifs == 2
MaxPolls == 2
\* Clicks on unread notifications awaiting the answer of their PATCH.
MaxReads == 2

\* Quit requests (application menu, dock, tray) of one run of the desktop shell.
MaxQuits == 2

\* ------------------------------------------------------- program constants
\* useDebounce(value, delay = 300), and the 300 of both call sites.
DebounceDelay == 300
\* waitForBackend(retries = 30)
Retries == 30
\* top: "25" in loadEmails, and the +/- 25 of the Prev/Next buttons.
PageSize == 25

NULL == "null"

VARIABLES
  \* --- email listing
  authenticated,    \* auth.authenticated
  emails,           \* [len, origin]: the displayed list and whose data it is
  pagination,       \* [skip, top, total]
  emailsFromCache,  \* the cached-source flag
  loading,          \* loading spinner flag
  notification,     \* the transient notice ("none" when null)
  notifyTimers,     \* number of pending 4 s notify timers
  activeFolder, searchQuery, inboxFilters,
  req,              \* loadEmails calls: slot -> record
  nreq,             \* number of loadEmails calls made so far
  preload,          \* mount-time pre-load: "pending" | "done"
  candidates,       \* list slice: candidate id -> [tags, notes]
  dbStats,          \* [candidates, emails]
  \* --- debounced search inputs
  now,              \* the clock, in ms
  view,             \* the active view
  debouncedSearch,  \* useDebounce(searchQuery)
  searchTimers,     \* its pending setTimeout callbacks: {[due, value]}
  lastSearchChange, \* when searchQuery last changed (-1: not since mount)
  candidateSearch,
  debouncedCandSearch,
  candTimers,
  lastCandChange,
  nFetches,         \* [debounce, user]: listing/candidate fetches issued so far
  lastFetch,        \* the latest of them: [path, target, value, at]
  \* --- candidate tags
  selectedCandidateId,  \* 0 when null
  candidateProfile,     \* [id, tags]; id 0 when null
  selectedCandidate,    \* [id, tags]; id 0 when null
  serverTags,           \* the backend's tags: candidate id -> list
  tagSaves,             \* PATCH .../tags requests awaiting their response
  profileLoads,         \* GET /api/candidates/{id} requests awaiting theirs
  candLoads,            \* GET /api/candidates requests awaiting theirs
  lastTagOp,            \* the latest tag add/remove: [kind, tag, flip]
  \* --- candidate notes
  serverNotes,          \* the backend's notes: candidate id -> text
  candidateNotesDraft,  \* candidate id -> text being edited, or UNDEFINED
  noteSaves,            \* PATCH .../notes requests awaiting their response
  \* --- session gate, logout and the loaders of the dashboard
  authLoading,          \* auth.loading
  authMethod,           \* "imap" or "oauth2"
  gate,                 \* the await the mount effect / checkAuth stands at
  serverSession,        \* the sessions the backend holds
  error,                \* the error banner, or NULL
  folders,              \* number of folders shown
  folderLoads,          \* GET /api/folders requests awaiting their response
  selectedEmail,        \* the opened email, or NULL
  emailOpens,           \* GET /api/emails/:id requests awaiting their response
  stats,                \* the statistics shown, or NULL
  statsLoads,           \* GET /api/stats requests awaiting their response
  logoutReq,            \* the logout POST awaiting its response, or NULL
  mounted,              \* the component is mounted
  startup,              \* desktop shell: position of the whenReady callback
  portBusy,             \* what isPortInUse(8000) found
  backendProcess,       \* the child handle, or null
  childRunning,         \* the backend child is alive
  killSent,             \* kill() was called on the child
  spawns,               \* spawn calls of this run
  checksLeft,           \* the n of the pending check(n)
  checksMade,           \* health checks sent
  waitSettled,          \* the promise of waitForBackend
  splashWindow,         \* the splash window
  mainWindow,           \* the main window
  tray,                 \* the tray icon exists
  isQuiting,            \* app.isQuiting
  quitRequests,         \* before-quit events of this run
  appQuit,              \* the app has quit
  readPatches,          \* PATCH .../read requests awaiting their response (item ids)
  markAllReqs,          \* PATCH .../read-all requests awaiting their response
  schedulerRunNow,      \* the Run Now button shows Running...
  runNowReqs,           \* POST /api/scheduler/run-now requests awaiting their response
  runNowTimers,         \* pending 3 s timeouts of the Run Now handler
  \* --- notifications
  serverNotifs,         \* the backend's notifications: id -> absent/unread/read
  notifications,        \* the dropdown's list: id -> absent/unread/read
  notifDropdownOpen,
  unreadCount,
  prevUnreadCountRef,
  notifLoads,           \* GET /api/notifications?limit=20 requests awaiting theirs
  pollReq,              \* the poll's position: idle, mount, count, list
  nPolls,               \* interval ticks so far
  toasts,               \* toasts on screen
  toastCount,           \* id -> toasts raised for it so far
  lastTick,             \* the count the latest successful count fetch returned
  compared,             \* the latest comparison of a tick: [tick, prev, new]
  \* --- settings
  schedulerConfig,      \* [loaded, enabled, interval_minutes, folder, subject_filter]
  schedulerLoading,
  schedulerForm,        \* [interval_minutes, folder, subject_filter]
  serverScheduler,      \* the backend's scheduler configuration
  schedPosts,           \* POST /api/scheduler/config requests awaiting their response
  schedGets,            \* GET /api/scheduler/status requests awaiting theirs
  lastToggle,           \* the latest click on the toggle: [sent, flip]
  clearConfirmText,
  showClearModal,
  clearDeletes          \* DELETE /api/storage/clear-data requests awaiting theirs

listingVars == <<authenticated, emails, pagination, emailsFromCache, loading,
                 notification, notifyTimers, activeFolder, searchQuery,
                 inboxFilters, req, nreq, preload, dbStats>>

\* What a step of the email listing leaves alone: the other features' state.
debounceVars == <<now, view, debouncedSearch, searchTimers, lastSearchChange,
                  candidateSearch, debouncedCandSearch, candTimers, lastCandChange,
                  nFetches, lastFetch>>
tagVars == <<selectedCandidateId, candidateProfile, selectedCandidate, serverTags,
             tagSaves, profileLoads, candLoads, lastTagOp>>
notesVars == <<serverNotes, candidateNotesDraft, noteSaves>>
sessionVars == <<authLoading, authMethod, gate, serverSession, error, folders,
                 folderLoads, selectedEmail, emailOpens, stats, statsLoads, logoutReq,
                 mounted>>
runVars == <<schedulerRunNow, runNowReqs, runNowTimers>>
readVars == <<readPatches, markAllReqs>>
shellVars == <<startup, portBusy, backendProcess, childRunning, killSent, spawns, checksLeft, checksMade, waitSettled, splashWindow, mainWindow, tray, isQuiting, quitRequests, appQuit>>
notifVars == <<serverNotifs, notifications, notifDropdownOpen, unreadCount,
               prevUnreadCountRef, notifLoads, pollReq, nPolls, toasts, toastCount, lastTick,
               compared>>
settingsVars == <<schedulerConfig, schedulerLoading, schedulerForm, serverScheduler,
                  schedPosts, schedGets, lastToggle, clearConfirmText, showClearModal,
                  clearDeletes>>
ListingFrame == UNCHANGED <<debounceVars, tagVars, notesVars, sessionVars, shellVars, readVars, runVars, notifVars, settingsVars>>
\* What a step of the debounced inputs leaves alone.
DebounceFrame == UNCHANGED <<emails, pagination, emailsFromCache, notification,
                            notifyTimers, activeFolder, inboxFilters, req, nreq,
                            preload, candidates, dbStats, serverTags, tagSaves,
                            profileLoads, lastTagOp, selectedCandidate,
                            notesVars, sessionVars, shellVars, readVars, runVars, notifVars, settingsVars>>

\* ================================================================ helpers

\* JavaScript truthiness of a string-or-null value.
Truthy(v) == v # "" /\ v # NULL

\* ========================================================= EMAIL LISTING

Folders == {NULL, "INBOX"}
Searches == {"", "cv"}
NoFilters == [from_date |-> "", to_date |-> "", sender |-> ""]
FilterChoices == [from_date : {"", "2024-01-01"}, to_date : {"", "2024-02-01"},
                  sender : {"", "hr@x.io"}]
\* Totals a listing response may report.
Totals == {0, 2 * PageSize + 10}
\* A page is empty or not: the code tests only data.emails?.length.
Lens == {0, 1}
\* A listing response body: n emails and the reported total.
Payloads == { p \in [n : Lens, total : Totals] : p.n <= p.total }

EmptyList == [len |-> 0, origin |-> "none"]

\* URLSearchParams as a set of <<key, value>> pairs.
Param(k, v) == IF Truthy(v) THEN {<<k, v>>} ELSE {}

\* loadEmails, the live request's query string.
LiveParams(folderId, skip, search, filters) ==
  {<<"skip", ToString(skip)>>, <<"top", ToString(PageSize)>>}
    \cup Param("folder_id", folderId)
    \cup Param("search", search)
    \cup Param("from_date", filters.from_date)
    \cup Param("to_date", filters.to_date)
    \cup Param("sender", filters.sender)

\* loadEmails, the cache fallback's query string.
CacheParams(folderId, skip, search, filters) ==
  {<<"skip", ToString(skip)>>, <<"top", ToString(PageSize)>>, <<"source", "cache">>}
    \cup Param("folder_id", folderId)
    \cup Param("search", search)
    \cup Param("sender", filters.sender)

\* No cache response handled (yet).
NoRes == [seen |-> FALSE, ok |-> FALSE, n |-> 0]

\* A loadEmails call that has not been made yet / has run to its end.
IdleReq == [phase |-> "idle", folderId |-> NULL, skip |-> 0, search |-> "",
            filters |-> NoFilters, seenCache |-> FALSE,
            liveQuery |-> {}, cacheQuery |-> {}, cacheRes |-> NoRes]
DoneReq == [IdleReq EXCEPT !.phase = "done"]

\* A notify that showed nothing.
NotifySilent(msg) == UNCHANGED <<notification, notifyTimers>>
\* notify(msg): show the notice and arm its 4 s timer.
Notify(msg) ==
  /\ notification' = msg
  /\ notifyTimers' = notifyTimers + 1

\* The cache banner's condition in the inbox view.
CacheBanner == emailsFromCache /\ emails.len > 0

\* A loadEmails that goes to the cache at once when the cached list is shown.
LoadEmailsCallCacheFirst(folderId, skip, search, filters, seen) ==
  /\ nreq < MaxRequests
  /\ nreq' = nreq + 1
  /\ loading' = TRUE
  /\ req' = [req EXCEPT ![nreq + 1] =
               [phase |-> IF seen THEN "cache" ELSE "live",
                folderId |-> folderId, skip |-> skip,
                search |-> search, filters |-> filters, seenCache |-> seen,
                liveQuery |-> LiveParams(folderId, skip, search, filters),
                cacheQuery |-> {}, cacheRes |-> NoRes]]

\* The body of loadEmails up to its first await: the call made with the given
\* arguments from a render in which emailsFromCache was `seen`.
LoadEmailsCall(folderId, skip, search, filters, seen) ==
  /\ nreq < MaxRequests
  /\ nreq' = nreq + 1
  /\ loading' = TRUE
  /\ req' = [req EXCEPT ![nreq + 1] =
               [phase |-> "live", folderId |-> folderId, skip |-> skip,
                search |-> search, filters |-> filters, seenCache |-> seen,
                liveQuery |-> LiveParams(folderId, skip, search, filters),
                cacheQuery |-> {}, cacheRes |-> NoRes]]

\* loadEmails called from a handler that writes no other listing state.
StartLoad(folderId, skip, search, filters, seen) ==
  /\ LoadEmailsCall(folderId, skip, search, filters, seen)
  /\ UNCHANGED <<emails, pagination, emailsFromCache, notification, notifyTimers,
                 preload, dbStats, candidates>>
  /\ ListingFrame

\* checkAuth finding a session: setAuth, then loadEmails() with its defaults.
\* The call runs in the closure of the render that started checkAuth: the
\* mount render (emailsFromCache still false) or the render of the login click.
AuthLoad ==
  /\ ~authenticated
  /\ authenticated' = TRUE
  /\ \E seen \in {FALSE, emailsFromCache} :
       StartLoad(NULL, 0, "", NoFilters, seen)
  /\ UNCHANGED <<activeFolder, searchQuery, inboxFilters>>

\* handleSearch (form submit) and the Apply Filters button: the same call.
HandleSearch ==
  /\ authenticated
  /\ StartLoad(activeFolder, 0, searchQuery, inboxFilters, emailsFromCache)
  /\ UNCHANGED <<authenticated, activeFolder, searchQuery, inboxFilters>>

\* The Clear button of the advanced filters.
ClearFilters ==
  /\ authenticated
  /\ inboxFilters' = NoFilters
  /\ StartLoad(activeFolder, 0, searchQuery, NoFilters, emailsFromCache)
  /\ UNCHANGED <<authenticated, activeFolder, searchQuery>>

\* selectFolder(f) for a folder of the sidebar.
SelectFolder ==
  /\ authenticated
  /\ \E f \in Folders \ {NULL} :
       /\ activeFolder' = f
       /\ StartLoad(f, 0, searchQuery, inboxFilters, emailsFromCache)
  /\ UNCHANGED <<authenticated, searchQuery, inboxFilters>>

\* The "All Mail" sidebar item.
AllMail ==
  /\ authenticated
  /\ activeFolder' = NULL
  /\ StartLoad(NULL, 0, searchQuery, inboxFilters, emailsFromCache)
  /\ UNCHANGED <<authenticated, searchQuery, inboxFilters>>

\* The Refresh button.
Refresh ==
  /\ authenticated
  /\ StartLoad(activeFolder, pagination.skip, searchQuery, inboxFilters, emailsFromCache)
  /\ UNCHANGED <<authenticated, activeFolder, searchQuery, inboxFilters>>

\* The Prev button (rendered only under a non-empty list).
PrevPage ==
  /\ authenticated
  /\ emails.len > 0
  /\ pagination.skip > 0
  /\ StartLoad(activeFolder,
               IF pagination.skip - PageSize > 0 THEN pagination.skip - PageSize ELSE 0,
               searchQuery, inboxFilters, emailsFromCache)
  /\ UNCHANGED <<authenticated, activeFolder, searchQuery, inboxFilters>>

\* The Next button (rendered only under a non-empty list).
NextPage ==
  /\ authenticated
  /\ emails.len > 0
  /\ pagination.skip + PageSize < pagination.total
  /\ StartLoad(activeFolder, pagination.skip + PageSize, searchQuery, inboxFilters,
               emailsFromCache)
  /\ UNCHANGED <<authenticated, activeFolder, searchQuery, inboxFilters>>

\* A live response whose success branch leaves the cached flag as it was.
LiveResponseKeepsFlag ==
  \E r \in 1..MaxRequests :
    /\ req[r].phase = "live"
    /\ \/ \E p \in Payloads :                       \* res.ok
            /\ emails' = [len |-> p.n, origin |-> "live"]
            /\ pagination' = [skip |-> req[r].skip, top |-> PageSize, total |-> p.total]
            /\ emailsFromCache' = emailsFromCache
            /\ loading' = FALSE
            /\ req' = [req EXCEPT ![r] = DoneReq]
            /\ UNCHANGED <<notification, notifyTimers>>
       \/ /\ ~req[r].seenCache                         \* failed: fall back
          /\ req' = [req EXCEPT ![r].phase = "cache",
                                ![r].cacheQuery = CacheParams(req[r].folderId,
                                    req[r].skip, req[r].search, req[r].filters)]
          /\ UNCHANGED <<emails, pagination, emailsFromCache, loading,
                         notification, notifyTimers>>
       \/ /\ req[r].seenCache                          \* failed: no fallback
          /\ Notify("IMAP unavailable")
          /\ loading' = FALSE
          /\ req' = [req EXCEPT ![r] = DoneReq]
          /\ UNCHANGED <<emails, pagination, emailsFromCache>>
    /\ UNCHANGED <<authenticated, activeFolder, searchQuery, inboxFilters, nreq,
                   preload, dbStats, candidates>>
    /\ ListingFrame

\* The live response of call r arrives: the rest of the try block on success,
\* the catch block up to the cache fetch (or to its end) on failure.
LiveResponse ==
  \E r \in 1..MaxRequests :
    /\ req[r].phase = "live"
    /\ \/ \E p \in Payloads :                       \* res.ok
            /\ emails' = [len |-> p.n, origin |-> "live"]
            /\ pagination' = [skip |-> req[r].skip, top |-> PageSize, total |-> p.total]
            /\ emailsFromCache' = FALSE
            /\ loading' = FALSE
            /\ req' = [req EXCEPT ![r] = DoneReq]
            /\ UNCHANGED <<notification, notifyTimers>>
       \/ /\ ~req[r].seenCache                         \* failed: fall back
          /\ req' = [req EXCEPT ![r].phase = "cache",
                                ![r].cacheQuery = CacheParams(req[r].folderId,
                                    req[r].skip, req[r].search, req[r].filters)]
          /\ UNCHANGED <<emails, pagination, emailsFromCache, loading,
                         notification, notifyTimers>>
       \/ /\ req[r].seenCache                          \* failed: no fallback
          /\ Notify("IMAP unavailable")
          /\ loading' = FALSE
          /\ req' = [req EXCEPT ![r] = DoneReq]
          /\ UNCHANGED <<emails, pagination, emailsFromCache>>
    /\ UNCHANGED <<authenticated, activeFolder, searchQuery, inboxFilters, nreq,
                   preload, dbStats, candidates>>
    /\ ListingFrame

\* `if (cData.emails?.length)`: a cache response is adopted when it has emails.
CacheAdoptsAny(p) == TRUE
CacheAdopts(p) == p.n > 0

\* The cache response of call r arrives: the rest of the catch block.  The
\* response is kept in the call's record (cacheRes) for the properties.
CacheResponse ==
  \E r \in 1..MaxRequests, ok \in BOOLEAN, p \in Payloads :
    /\ req[r].phase = "cache"
    /\ ~ok => p = [n |-> 0, total |-> 0]              \* failed or threw: no body
    /\ IF ok /\ CacheAdopts(p)
         THEN /\ emails' = [len |-> p.n, origin |-> "cache"]
              /\ pagination' = [skip |-> req[r].skip, top |-> PageSize,
                                total |-> p.total]
              /\ emailsFromCache' = TRUE
         ELSE UNCHANGED <<emails, pagination, emailsFromCache>>
    /\ Notify("IMAP unavailable")
    /\ loading' = FALSE
    /\ req' = [req EXCEPT ![r] =
                 [DoneReq EXCEPT !.cacheRes = [seen |-> TRUE, ok |-> ok, n |-> p.n]]]
    /\ UNCHANGED <<authenticated, activeFolder, searchQuery, inboxFilters, nreq,
                   preload, dbStats, candidates>>
    /\ ListingFrame

\* What GET /api/candidates returns to the pre-load.
ServerCandidates ==
  [c \in DOMAIN serverTags |-> [tags |-> serverTags[c], notes |-> serverNotes[c]]]

\* The mount-time pre-load: both responses are in (Promise.all), then the
\* candidates and the cached emails are applied.
PreloadResponse ==
  /\ preload = "pending"
  /\ preload' = "done"
  /\ \E candOk \in BOOLEAN :
       IF candOk
         THEN /\ candidates' = ServerCandidates
              /\ \E emailOk \in BOOLEAN, p \in Payloads :
                   IF emailOk /\ p.n > 0
                     THEN /\ emails' = [len |-> p.n, origin |-> "cache"]
                          /\ pagination' = [skip |-> 0, top |-> PageSize, total |-> p.total]
                          /\ emailsFromCache' = TRUE
                          /\ dbStats' = [candidates |-> Cardinality(DOMAIN ServerCandidates),
                                         emails |-> p.total]
                     ELSE /\ dbStats' = [dbStats EXCEPT
                                           !.candidates = Cardinality(DOMAIN ServerCandidates)]
                          /\ UNCHANGED <<emails, pagination, emailsFromCache>>
         ELSE /\ UNCHANGED candidates
              /\ \E emailOk \in BOOLEAN, p \in Payloads :
                   IF emailOk /\ p.n > 0
                     THEN /\ emails' = [len |-> p.n, origin |-> "cache"]
                          /\ pagination' = [skip |-> 0, top |-> PageSize, total |-> p.total]
                          /\ emailsFromCache' = TRUE
                          /\ dbStats' = [dbStats EXCEPT !.emails = p.total]
                     ELSE UNCHANGED <<emails, pagination, emailsFromCache, dbStats>>
  /\ UNCHANGED <<authenticated, loading, notification, notifyTimers, activeFolder,
                 searchQuery, inboxFilters, req, nreq>>
  /\ ListingFrame

\* A notify timer fires: setNotification(null).
NotifyTimeout ==
  /\ notifyTimers > 0
  /\ notifyTimers' = notifyTimers - 1
  /\ notification' = "none"
  /\ UNCHANGED <<authenticated, emails, pagination, emailsFromCache, loading,
                 activeFolder, searchQuery, inboxFilters, req, nreq, preload,
                 dbStats, candidates>>
  /\ ListingFrame

InitListing ==
  /\ authenticated = FALSE
  /\ emails = EmptyList
  /\ pagination = [skip |-> 0, top |-> PageSize, total |-> 0]
  /\ emailsFromCache = FALSE
  /\ loading = FALSE
  /\ notification = "none"
  /\ notifyTimers = 0
  /\ activeFolder = NULL
  /\ searchQuery = ""
  /\ inboxFilters = NoFilters
  /\ req = [r \in 1..MaxRequests |-> IdleReq]
  /\ nreq = 0
  /\ preload = "pending"
  /\ dbStats = [candidates |-> 0, emails |-> 0]
  /\ candidates = [c \in {} |-> 0]

NoFetch == [path |-> "none", target |-> "none", value |-> "", at |-> 0]

\* The debounce state after the mount render: both useDebounce effects have
\* armed a timer for the initial (empty) value.
InitDebounce ==
  /\ now = 0
  /\ view = "inbox"
  /\ debouncedSearch = ""
  /\ searchTimers = {[due |-> DebounceDelay, value |-> ""]}
  /\ lastSearchChange = -1
  /\ candidateSearch = ""
  /\ debouncedCandSearch = ""
  /\ candTimers = {[due |-> DebounceDelay, value |-> ""]}
  /\ lastCandChange = -1
  /\ nFetches = [debounce |-> 0, user |-> 0]
  /\ lastFetch = NoFetch

\* candidateProfile / selectedCandidate when null.
NoCand == [id |-> 0, tags |-> <<>>, notes |-> ""]
Cands == {1}

\* The tag state after the mount render; the backend holds no tags yet.
InitTagState ==
  /\ selectedCandidateId = 0
  /\ candidateProfile = NoCand
  /\ selectedCandidate = NoCand
  /\ serverTags = [c \in Cands |-> <<>>]
  /\ tagSaves = <<>>
  /\ profileLoads = 0
  /\ candLoads = 0
  /\ lastTagOp = [kind |-> "none", tag |-> "", flip |-> FALSE]

\* candidateNotesDraft[id] when the draft has no entry for id.
UNDEFINED == "undefined"

\* The notes state after the mount render; the backend holds no notes yet.
InitNotesState ==
  /\ serverNotes = [c \in Cands |-> ""]
  /\ candidateNotesDraft = [c \in Cands |-> UNDEFINED]
  /\ noteSaves = <<>>

\* The session state of the listing, search, candidate, notification and
\* settings specifications, which enter the dashboard in one step (AuthLoad,
\* DebounceAuth): the backend holds a password session.
InitSessionState ==
  /\ authLoading = TRUE
  /\ authMethod = "imap"
  /\ gate = "status"
  /\ serverSession = {"imap"}
  /\ error = NULL
  /\ folders = 0
  /\ folderLoads = 0
  /\ selectedEmail = NULL
  /\ emailOpens = 0
  /\ stats = NULL
  /\ statsLoads = 0
  /\ logoutReq = NULL
  /\ mounted = TRUE

InitRunNowState ==
  /\ schedulerRunNow = FALSE
  /\ runNowReqs = 0
  /\ runNowTimers = 0

InitReadState ==
  /\ readPatches = <<>>
  /\ markAllReqs = 0

InitShellState ==
  /\ startup = "portCheck"
  /\ portBusy = "unknown"
  /\ backendProcess = NULL
  /\ childRunning = FALSE
  /\ killSent = FALSE
  /\ spawns = 0
  /\ checksLeft = Retries
  /\ checksMade = 0
  /\ waitSettled = "none"
  /\ splashWindow = "open"
  /\ mainWindow = NULL
  /\ tray = FALSE
  /\ isQuiting = FALSE
  /\ quitRequests = 0
  /\ appQuit = FALSE

\* Notification ids, most recent last; every second is a new_candidate
\* notification, the others are new_high_fit ones.
NotifIds == 1..MaxNotifs
NotifType == [id \in NotifIds |-> IF id % 2 = 0 THEN "new_candidate" ELSE "new_high_fit"]

\* The notification state after the mount render: the poll effect has called
\* loadNotificationCount().
InitNotifState ==
  /\ serverNotifs = [id \in NotifIds |-> "absent"]
  /\ notifications = [id \in NotifIds |-> "absent"]
  /\ notifDropdownOpen = FALSE
  /\ unreadCount = 0
  /\ prevUnreadCountRef = 0
  /\ notifLoads = 0
  /\ pollReq = "mount"
  /\ nPolls = 0
  /\ toasts = 0
  /\ toastCount = [id \in NotifIds |-> 0]
  /\ lastTick = 0
  /\ compared = [tick |-> 0, prev |-> 0, new |-> 0, seen |-> 0]

\* The scheduler configuration as the backend holds it at first.
SchedulerOff == [enabled |-> FALSE, interval_minutes |-> 30, folder |-> "INBOX",
                 subject_filter |-> NULL]
\* schedulerConfig when null.
NoConfig == [loaded |-> FALSE, enabled |-> FALSE, interval_minutes |-> 30,
             folder |-> "INBOX", subject_filter |-> NULL]

InitSettingsState ==
  /\ schedulerConfig = NoConfig
  /\ schedulerLoading = FALSE
  /\ schedulerForm = [interval_minutes |-> 30, folder |-> "INBOX", subject_filter |-> ""]
  /\ serverScheduler = SchedulerOff
  /\ schedPosts = <<>>
  /\ schedGets = <<>>
  /\ lastToggle = [sent |-> FALSE, flip |-> FALSE]
  /\ clearConfirmText = ""
  /\ showClearModal = FALSE
  /\ clearDeletes = 0

vars == <<authenticated, emails, pagination, emailsFromCache, loading,
          notification, notifyTimers, activeFolder, searchQuery, inboxFilters,
          req, nreq, preload, dbStats, candidates, debounceVars, tagVars,
          notesVars, sessionVars, shellVars, readVars, runVars, notifVars, settingsVars>>

InitL == InitListing /\ InitDebounce /\ InitTagState /\ InitNotesState
           /\ InitSessionState /\ InitRunNowState /\ InitReadState /\ InitShellState
           /\ InitNotifState /\ InitSettingsState

NextListing ==
  \/ AuthLoad
  \/ HandleSearch
  \/ ClearFilters
  \/ SelectFolder
  \/ AllMail
  \/ Refresh
  \/ PrevPage
  \/ NextPage
  \/ LiveResponse
  \/ CacheResponse
  \/ PreloadResponse
  \/ NotifyTimeout

SpecListing == InitL /\ [][NextListing]_vars

\* Number of loadEmails calls awaiting a response.
InFlight == Cardinality({r \in 1..MaxRequests : req[r].phase \in {"live", "cache"}})

\* The query strings of loadEmails are functions of its arguments.  This
\* specification draws the inputs the arguments are read from (folder, search
\* text, filters) from their sets and follows the runs in which the user
\* waits for a call to return before starting the next one.
InitQuery ==
  /\ activeFolder \in Folders
  /\ searchQuery \in Searches
  /\ inboxFilters \in FilterChoices
  /\ authenticated = FALSE
  /\ emails = EmptyList
  /\ pagination = [skip |-> 0, top |-> PageSize, total |-> 0]
  /\ emailsFromCache = FALSE
  /\ loading = FALSE
  /\ notification = "none"
  /\ notifyTimers = 0
  /\ req = [r \in 1..MaxRequests |-> IdleReq]
  /\ nreq = 0
  /\ preload = "pending"
  /\ dbStats = [candidates |-> 0, emails |-> 0]
  /\ candidates = [c \in {} |-> 0]
  /\ InitDebounce
  /\ InitTagState
  /\ InitNotesState
  /\ InitSessionState
  /\ InitReadState /\ InitShellState
  /\ InitRunNowState
  /\ InitNotifState
  /\ InitSettingsState

OneAtATime(A) == A /\ InFlight' <= 1

NextQuery ==
  \/ OneAtATime(AuthLoad)
  \/ OneAtATime(HandleSearch)
  \/ OneAtATime(ClearFilters)
  \/ OneAtATime(SelectFolder)
  \/ OneAtATime(AllMail)
  \/ OneAtATime(Refresh)
  \/ OneAtATime(PrevPage)
  \/ OneAtATime(NextPage)
  \/ LiveResponse
  \/ CacheResponse
  \/ PreloadResponse
  \/ NotifyTimeout

SpecQuery == InitQuery /\ [][NextQuery]_vars

\* ------------------------------------------------------ listing: properties

\* Call r finishes in this step by handling its cache response.
CacheFinishes(r) == req[r].phase = "cache" /\ req'[r].phase = "done"

\* C1 (as stated): when a listing request whose live fetch failed finishes
\* after a cache fetch, the cached banner is displayed if and only if that
\* cache fetch succeeded and returned at least one email.
C1_BannerIffCacheHit ==
  [][\A r \in 1..MaxRequests :
       CacheFinishes(r) =>
         (CacheBanner' <=> (req'[r].cacheRes.ok /\ req'[r].cacheRes.n >= 1))]_vars

\* C1 (amended): the banner is displayed after the request finishes if the
\* cache fetch succeeded with at least one email; otherwise the request
\* leaves the list, the pagination and the cached flag exactly as they were,
\* so the banner is displayed exactly if it was displayed before.
C1_BannerAfterFallback ==
  [][\A r \in 1..MaxRequests :
       CacheFinishes(r) =>
         IF req'[r].cacheRes.ok /\ req'[r].cacheRes.n >= 1
           THEN CacheBanner' /\ emails'.origin = "cache"
           ELSE /\ emails' = emails
                /\ pagination' = pagination
                /\ emailsFromCache' = emailsFromCache
                /\ (CacheBanner' <=> CacheBanner)]_vars

\* C1 witness: a fallback that adopted the cache, and one that did not while
\* the banner was up.
C1_Witness ==
  /\ CacheBanner
  /\ \E r \in 1..MaxRequests :
       req[r].phase = "done" /\ req[r].cacheRes.seen
         /\ req[r].cacheRes.ok /\ req[r].cacheRes.n >= 1
  /\ \E r \in 1..MaxRequests :
       req[r].phase = "done" /\ req[r].cacheRes.seen /\ ~req[r].cacheRes.ok

\* C2: a list that a live fetch delivered is replaced by cache data only by
\* the fallback of a listing request whose live fetch failed (never by the
\* mount-time pre-load racing the live loaders).
C2_CacheNeverReplacesLive ==
  [][(emails.origin = "live" /\ emails'.origin = "cache") =>
       \E r \in 1..MaxRequests : CacheFinishes(r)]_vars

\* C3: the cache fallback's query is the failed live query plus only the
\* source=cache marker.
C3_CacheQuerySameFilters ==
  \A r \in 1..MaxRequests :
    req[r].phase = "cache" =>
      req[r].cacheQuery = req[r].liveQuery \cup {<<"source", "cache">>}

\* The mount-time pre-load completes in this step.
PreloadFinishes == preload = "pending" /\ preload' = "done"

\* C19: the pre-load and loadEmails write disjoint state: a pre-load that
\* completes while a listing request is in flight, or after one has
\* delivered, leaves emails, pagination and emailsFromCache as they are, so
\* the final listing does not depend on which response arrives first.
C19_PreloadLeavesListingSlice ==
  [][(PreloadFinishes /\ nreq > 0) =>
       /\ emails' = emails
       /\ pagination' = pagination
       /\ emailsFromCache' = emailsFromCache]_vars

\* Call r runs to its end in this step.
Completes(r) == req[r].phase \in {"live", "cache"} /\ req'[r].phase = "done"

\* The step writes the displayed list, the pagination and the cached flag
\* from the response call r is handling: a live response in phase "live", a
\* cache response in phase "cache".
AppliedFrom(r) ==
  /\ emails'.origin = (IF req[r].phase = "live" THEN "live" ELSE "cache")
  /\ pagination'.skip = req[r].skip
  /\ pagination'.top = PageSize
  /\ emailsFromCache' = (req[r].phase = "cache")

PhaseSteps ==
  {<<"idle", "live">>, <<"live", "cache">>, <<"live", "done">>, <<"cache", "done">>}

\* The live response of call r is a success in this step: the call ends
\* without raising a notice.
LiveSucceeds(r) ==
  /\ req[r].phase = "live" /\ req'[r].phase = "done"
  /\ notifyTimers' = notifyTimers

\* C26: every listing request starts with the live fetch, whose query names
\* no cache source; a live success while the cached list is shown replaces
\* the list and clears the cached flag in the same step; and a request makes
\* at most one live fetch and then at most one cache fetch, never going back
\* to an earlier phase.
C26_LiveFirstNoRetry ==
  [][/\ nreq' > nreq =>
          /\ nreq' = nreq + 1
          /\ req[nreq'].phase = "idle" /\ req'[nreq'].phase = "live"
          /\ <<"source", "cache">> \notin req'[nreq'].liveQuery
     /\ \A r \in 1..MaxRequests :
          /\ req'[r].phase # req[r].phase =>
               <<req[r].phase, req'[r].phase>> \in PhaseSteps
          /\ (LiveSucceeds(r) /\ emailsFromCache) =>
               /\ emails'.origin = "live"
               /\ pagination'.skip = req[r].skip
               /\ ~emailsFromCache']_vars

\* The pre-load put the cached list on screen and a later live response
\* replaced it: the list is live, the flag is down, the call has ended.
C26_Witness ==
  /\ preload = "done" /\ dbStats.emails > 0
  /\ emails.origin = "live"
  /\ ~emailsFromCache
  /\ nreq = 1 /\ req[1].phase = "done"
  /\ notification = "none"

\* C28: a notice stays up for the 4 s of its own timer unless a newer notice
\* replaces it.  Every notify arms one timer and the timers, all of 4 s, fire
\* in the order they were armed, so the notice on screen belongs to the timer
\* armed last: it is taken down only when no other timer is pending.
C28_NoticeClearedByOwnTimer ==
  [][(notification # "none" /\ notification' = "none") => notifyTimers = 1]_vars

\* ===================================================== DEBOUNCED SEARCH

\* The clock advances in thirds of the debounce delay.
\* C11: the pagination window starts inside the total the server last
\* reported: skip < total when total > 0, and skip = 0 when total = 0.
C11_SkipWithinTotal ==
  IF pagination.total > 0 THEN pagination.skip < pagination.total
                          ELSE pagination.skip = 0

\* C12: when a listing request's live fetch has failed and its cache fetch
\* fails too or returns no email, the request leaves the list, the pagination
\* and the cached flag as they were and shows the error notice.
C12_DoubleFailureKeepsList ==
  [][\A r \in 1..MaxRequests :
       (CacheFinishes(r) /\ (~req'[r].cacheRes.ok \/ req'[r].cacheRes.n = 0)) =>
         /\ emails' = emails
         /\ pagination' = pagination
         /\ emailsFromCache' = emailsFromCache
         /\ notification' = "IMAP unavailable"
         /\ notifyTimers' = notifyTimers + 1]_vars

\* C12 witness: a live list is on screen after a later request's live and
\* cache fetches both failed, and the notice is up.
C12_Witness ==
  /\ emails = [len |-> 1, origin |-> "live"]
  /\ pagination.total > 0
  /\ notification = "IMAP unavailable"
  /\ \E r \in 1..MaxRequests :
       req[r].phase = "done" /\ req[r].cacheRes.seen /\ ~req[r].cacheRes.ok

TimeStep == DebounceDelay \div 3
Horizon == MaxTicks * TimeStep

CandSearches == {"", "anna", "annab"}

\* useDebounce's effect for a new value: the cleanup of the previous effect
\* clears its timer, then setTimeout(() => setDebounced(value), delay).
ArmTimerNoCleanup(timers, value) ==
  timers \cup {[due |-> now + DebounceDelay, value |-> value]}
ArmTimer(timers, value) == {[due |-> now + DebounceDelay, value |-> value]}

\* The timers whose delay has elapsed.
Due(timers) == {t \in timers : t.due <= now}

\* A listing or candidates fetch leaves the client.
IssueFetch(path, target, value) ==
  /\ lastFetch' = [path |-> path, target |-> target, value |-> value, at |-> now]
  /\ nFetches' = IF path = "debounce"
                   THEN [nFetches EXCEPT !.debounce = @ + 1]
                   ELSE [nFetches EXCEPT !.user = @ + 1]
  /\ candLoads' = IF target = "candidates" THEN candLoads + 1 ELSE candLoads

\* Time passes; a timer that is due fires first.
Tick ==
  /\ now < Horizon
  /\ Due(searchTimers) = {} /\ Due(candTimers) = {}
  /\ now' = now + TimeStep
  /\ UNCHANGED <<authenticated, loading, searchQuery, view, debouncedSearch,
                 searchTimers, lastSearchChange, candidateSearch,
                 debouncedCandSearch, candTimers, lastCandChange, nFetches, lastFetch, candLoads>>
  /\ DebounceFrame /\ UNCHANGED <<selectedCandidateId, candidateProfile>>

\* checkAuth finds a session: the dashboard is shown and loadEmails() runs.
DebounceAuth ==
  /\ ~authenticated
  /\ authenticated' = TRUE
  /\ loading' = TRUE
  /\ IssueFetch("auth", "emails", "")
  /\ UNCHANGED <<now, searchQuery, view, debouncedSearch, searchTimers,
                 lastSearchChange, candidateSearch, debouncedCandSearch, candTimers,
                 lastCandChange>>
  /\ DebounceFrame /\ UNCHANGED <<selectedCandidateId, candidateProfile>>

\* The email search input's onChange, and the useDebounce effect of the
\* render it causes.
SetSearchQuery ==
  /\ authenticated /\ view = "inbox"
  /\ \E s \in Searches \ {searchQuery} :
       /\ searchQuery' = s
       /\ searchTimers' = ArmTimer(searchTimers, s)
  /\ lastSearchChange' = now
  /\ UNCHANGED <<now, authenticated, loading, view, debouncedSearch, candidateSearch,
                 debouncedCandSearch, candTimers, lastCandChange, nFetches, lastFetch, candLoads>>
  /\ DebounceFrame /\ UNCHANGED <<selectedCandidateId, candidateProfile>>

\* The candidate search input's onChange (candidates view).
SetCandidateSearch ==
  /\ authenticated /\ view = "candidates"
  /\ \E s \in CandSearches \ {candidateSearch} :
       /\ candidateSearch' = s
       /\ candTimers' = ArmTimer(candTimers, s)
  /\ lastCandChange' = now
  /\ UNCHANGED <<now, authenticated, loading, searchQuery, view, debouncedSearch,
                 searchTimers, lastSearchChange, debouncedCandSearch, nFetches,
                 lastFetch, candLoads>>
  /\ DebounceFrame /\ UNCHANGED <<selectedCandidateId, candidateProfile>>

\* A searchQuery timer fires: setDebounced(value); when that changes
\* debouncedSearch, the auto-search effect runs loadEmails(activeFolder, 0,
\* debouncedSearch, inboxFilters) if authenticated.
SearchTimerFires ==
  \E t \in Due(searchTimers) :
    /\ searchTimers' = searchTimers \ {t}
    /\ debouncedSearch' = t.value
    /\ IF t.value # debouncedSearch /\ authenticated
         THEN IssueFetch("debounce", "emails", t.value) /\ loading' = TRUE
         ELSE UNCHANGED <<nFetches, lastFetch, candLoads, loading>>
    /\ UNCHANGED <<now, authenticated, searchQuery, view, lastSearchChange,
                   candidateSearch, debouncedCandSearch, candTimers, lastCandChange>>
    /\ DebounceFrame /\ UNCHANGED <<selectedCandidateId, candidateProfile>>

\* A candidateSearch timer fires; the effect runs loadCandidates(
\* debouncedCandSearch) if authenticated and the candidates view is active.
CandTimerFires ==
  \E t \in Due(candTimers) :
    /\ candTimers' = candTimers \ {t}
    /\ debouncedCandSearch' = t.value
    /\ IF t.value # debouncedCandSearch /\ authenticated /\ view = "candidates"
         THEN IssueFetch("debounce", "candidates", t.value)
         ELSE UNCHANGED <<nFetches, lastFetch, candLoads>>
    /\ UNCHANGED <<now, authenticated, loading, searchQuery, view, debouncedSearch,
                   searchTimers, lastSearchChange, candidateSearch, lastCandChange>>
    /\ DebounceFrame /\ UNCHANGED <<selectedCandidateId, candidateProfile>>

\* handleSearch: the search form is submitted.
SubmitSearch ==
  /\ authenticated /\ view = "inbox"
  /\ nFetches.user < MaxUserFetches
  /\ loading' = TRUE
  /\ IssueFetch("submit", "emails", searchQuery)
  /\ UNCHANGED <<now, authenticated, searchQuery, view, debouncedSearch, searchTimers,
                 lastSearchChange, candidateSearch, debouncedCandSearch, candTimers,
                 lastCandChange>>
  /\ DebounceFrame /\ UNCHANGED <<selectedCandidateId, candidateProfile>>

\* Sidebar: Candidates.  setView("candidates") and loadCandidates(candidateSearch).
NavCandidates ==
  /\ authenticated
  /\ nFetches.user < MaxUserFetches
  /\ view' = "candidates"
  /\ selectedCandidateId' = 0
  /\ candidateProfile' = NoCand
  /\ IssueFetch("nav", "candidates", candidateSearch)
  /\ UNCHANGED <<now, authenticated, loading, searchQuery, debouncedSearch,
                 searchTimers, lastSearchChange, candidateSearch, debouncedCandSearch,
                 candTimers, lastCandChange>>
  /\ DebounceFrame

\* Sidebar: a view that loads neither emails nor candidates (Scrape).
NavScrape ==
  /\ authenticated
  /\ view # "scrape"
  /\ view' = "scrape"
  /\ UNCHANGED <<now, authenticated, loading, searchQuery, debouncedSearch,
                 searchTimers, lastSearchChange, candidateSearch, debouncedCandSearch,
                 candTimers, lastCandChange, nFetches, lastFetch, candLoads>>
  /\ DebounceFrame /\ UNCHANGED <<selectedCandidateId, candidateProfile>>

\* Sidebar: All Mail.  setView("inbox") and a listing load with searchQuery.
NavInbox ==
  /\ authenticated
  /\ nFetches.user < MaxUserFetches
  /\ view' = "inbox"
  /\ loading' = TRUE
  /\ IssueFetch("nav", "emails", searchQuery)
  /\ UNCHANGED <<now, authenticated, searchQuery, debouncedSearch, searchTimers,
                 lastSearchChange, candidateSearch, debouncedCandSearch, candTimers,
                 lastCandChange>>
  /\ UNCHANGED <<emails, pagination, emailsFromCache, notification, notifyTimers,
                 inboxFilters, req, nreq, preload, candidates, dbStats>>
  /\ UNCHANGED <<selectedCandidateId, candidateProfile, selectedCandidate, serverTags,
                 tagSaves, profileLoads, lastTagOp, notesVars, sessionVars, shellVars, readVars, runVars, notifVars, settingsVars>>
  /\ activeFolder' = NULL

NextDebounce ==
  \/ Tick
  \/ DebounceAuth
  \/ SetSearchQuery
  \/ SetCandidateSearch
  \/ SearchTimerFires
  \/ CandTimerFires
  \/ SubmitSearch
  \/ NavCandidates
  \/ NavScrape
  \/ NavInbox

SpecDebounce == InitL /\ [][NextDebounce]_vars

\* ----------------------------------------------------- debounce: properties

\* This step is the firing of a timer of the email / candidate search input.
SearchFired == \E t \in Due(searchTimers) : searchTimers' = searchTimers \ {t}
CandFired == \E t \in Due(candTimers) : candTimers' = candTimers \ {t}
\* This step issues a fetch on the debounce path.
DebounceFetched == nFetches'.debounce = nFetches.debounce + 1

\* C4 (as stated): after a burst of changes to a debounced input, each less
\* than 300 ms after the previous one, exactly one fetch is issued by the
\* debounce path, 300 ms after the last change, with the final value.
C4_ExactlyOneFetchPerBurst ==
  [][/\ (authenticated /\ lastSearchChange >= 0 /\ SearchFired) =>
          /\ DebounceFetched
          /\ lastFetch' = [path |-> "debounce", target |-> "emails",
                           value |-> searchQuery,
                           at |-> lastSearchChange + DebounceDelay]
     /\ (authenticated /\ view = "candidates" /\ lastCandChange >= 0 /\ CandFired) =>
          /\ DebounceFetched
          /\ lastFetch' = [path |-> "debounce", target |-> "candidates",
                           value |-> candidateSearch,
                           at |-> lastCandChange + DebounceDelay]]_vars

\* C4 (amended): a burst ends in one timer firing, 300 ms after the last
\* change, and the debounce path fetches only then, with the final value:
\* exactly once if the final value differs from the value last debounced,
\* not at all if it is equal; a superseded value is never fetched.
C4_AtMostOneFetchPerBurst ==
  [][/\ Cardinality(searchTimers) <= 1 /\ Cardinality(candTimers) <= 1
     /\ DebounceFetched =>
          \/ /\ SearchFired
             /\ lastFetch' = [path |-> "debounce", target |-> "emails",
                              value |-> searchQuery,
                              at |-> lastSearchChange + DebounceDelay]
          \/ /\ CandFired
             /\ lastFetch' = [path |-> "debounce", target |-> "candidates",
                              value |-> candidateSearch,
                              at |-> lastCandChange + DebounceDelay]
     /\ (authenticated /\ lastSearchChange >= 0 /\ SearchFired) =>
          /\ now = lastSearchChange + DebounceDelay
          /\ DebounceFetched <=> searchQuery # debouncedSearch
     /\ (authenticated /\ view = "candidates" /\ lastCandChange >= 0 /\ CandFired) =>
          /\ now = lastCandChange + DebounceDelay
          /\ DebounceFetched <=> candidateSearch # debouncedCandSearch]_vars

\* C4 witness: "anna" then "annab" typed in the candidates view at different
\* instants less than 300 ms apart, and the one fetch, for "annab", issued
\* 300 ms after the second keystroke.
C4_Witness ==
  /\ lastFetch = [path |-> "debounce", target |-> "candidates", value |-> "annab",
                  at |-> lastCandChange + DebounceDelay]
  /\ nFetches.debounce = 1
  /\ debouncedCandSearch = "annab"
  /\ lastCandChange > 0
  /\ now = lastCandChange + DebounceDelay

\* C25: a submit of the search form fetches at once with the raw input
\* value, and the pending debounce adds no second fetch for that value: the
\* timer of a value the form has submitted since it was typed fires without
\* a fetch.
C25_SubmitAndDebounceFetchOnce ==
  [][/\ nFetches'.user > nFetches.user /\ lastFetch'.path = "submit" =>
          lastFetch' = [path |-> "submit", target |-> "emails",
                        value |-> searchQuery, at |-> now]
     /\ (/\ SearchFired
         /\ lastFetch.path = "submit"
         /\ lastFetch.value = searchQuery
         /\ lastFetch.at >= lastSearchChange
         /\ lastSearchChange >= 0) =>
          ~DebounceFetched]_vars

\* ---------------------------------------------------------- candidate tags
\* The tags the user works with: one of SUGGESTED_TAGS, the same word typed
\* in lower case, and an unrelated typed tag.
SUGGESTED_TAGS == {"Shortlisted"}
TypedTags == {"shortlisted", "java"}
AllTags == SUGGESTED_TAGS \cup TypedTags

\* String.prototype.toLowerCase on AllTags.
toLowerCase == [t \in AllTags |-> IF t = "Shortlisted" THEN "shortlisted" ELSE t]

\* current.some((t) => t.toLowerCase() === tag.toLowerCase())
HasTag(tags, tag) == \E i \in 1..Len(tags) : toLowerCase[tags[i]] = toLowerCase[tag]

\* tags.filter((x) => x !== tag)
Without(tags, tag) == SelectSeq(tags, LAMBDA x : x # tag)

TagFrame == UNCHANGED <<authenticated, emails, pagination, emailsFromCache, loading,
                        activeFolder, searchQuery, inboxFilters, req, nreq, preload,
                        now, debouncedSearch, searchTimers, lastSearchChange,
                        candidateSearch, debouncedCandSearch, candTimers,
                        lastCandChange, nFetches, lastFetch, notesVars, sessionVars, shellVars, readVars, runVars, notifVars,
                        settingsVars>>

\* saveCandidateTags up to its await: the PATCH leaves the client.
SendTags(id, tags) ==
  /\ Len(tagSaves) < MaxSaves
  /\ tagSaves' = Append(tagSaves, [id |-> id, tags |-> tags])

\* addTagToCandidate: the duplicate check reads the list entry.
addTagToCandidate(id, tag) ==
  IF id \notin DOMAIN candidates \/ HasTag(candidates[id].tags, tag)
    THEN UNCHANGED tagSaves
    ELSE /\ Len(candidates[id].tags) < MaxTags
         /\ SendTags(id, Append(candidates[id].tags, tag))

\* removeTagFromCandidate: filters the list entry's tags and saves the result.
removeTagFromCandidate(id, tag) ==
  IF id \notin DOMAIN candidates
    THEN UNCHANGED tagSaves
    ELSE SendTags(id, Without(candidates[id].tags, tag))

\* The latest tag operation, for the properties.
TagOp(kind, tag) == lastTagOp' = [kind |-> kind, tag |-> tag, flip |-> ~lastTagOp.flip]

\* List row: a tag typed into "Add tag..." and Enter.
RowAddTyped ==
  /\ view = "candidates"
  /\ \E id \in DOMAIN candidates, tag \in TypedTags :
       /\ addTagToCandidate(id, tag)
       /\ TagOp("rowTyped", tag)
  /\ UNCHANGED <<view, candidates, dbStats, notification, notifyTimers,
                 selectedCandidateId, candidateProfile, selectedCandidate,
                 serverTags, profileLoads, candLoads>>
  /\ TagFrame

\* List row: a "+ tag" button, rendered for the suggested tags the row lacks.
RowAddSuggested ==
  /\ view = "candidates"
  /\ \E id \in DOMAIN candidates, st \in SUGGESTED_TAGS :
       /\ ~HasTag(candidates[id].tags, st)
       /\ addTagToCandidate(id, st)
       /\ TagOp("rowSuggested", st)
  /\ UNCHANGED <<view, candidates, dbStats, notification, notifyTimers,
                 selectedCandidateId, candidateProfile, selectedCandidate,
                 serverTags, profileLoads, candLoads>>
  /\ TagFrame

\* List row: the x of a tag chip.
RowRemoveTag ==
  /\ view = "candidates"
  /\ \E id \in DOMAIN candidates :
       \E i \in 1..Len(candidates[id].tags) :
         /\ removeTagFromCandidate(id, candidates[id].tags[i])
         /\ TagOp("rowRemove", candidates[id].tags[i])
  /\ UNCHANGED <<view, candidates, dbStats, notification, notifyTimers,
                 selectedCandidateId, candidateProfile, selectedCandidate,
                 serverTags, profileLoads, candLoads>>
  /\ TagFrame

\* openCandidateProfile up to its await.
OpenProfile ==
  /\ view = "candidates"
  /\ profileLoads < MaxLoads
  /\ \E id \in DOMAIN candidates : selectedCandidateId' = id
  /\ candidateProfile' = NoCand
  /\ view' = "candidateProfile"
  /\ profileLoads' = profileLoads + 1
  /\ UNCHANGED <<candidates, dbStats, notification, notifyTimers, selectedCandidate,
                 serverTags, tagSaves, candLoads, lastTagOp>>
  /\ TagFrame

\* openCandidateProfile after its await.
ProfileResponse ==
  /\ profileLoads > 0
  /\ profileLoads' = profileLoads - 1
  /\ \/ /\ \E id \in Cands :
             /\ candidateProfile' = [id |-> id, tags |-> serverTags[id],
                                      notes |-> serverNotes[id]]
             /\ selectedCandidate' = [id |-> id, tags |-> serverTags[id],
                                       notes |-> serverNotes[id]]
        /\ UNCHANGED <<notification, notifyTimers>>
     \/ /\ notifyTimers < MaxNotices
        /\ Notify("Failed to load candidate profile")
        /\ UNCHANGED <<candidateProfile, selectedCandidate>>
  /\ UNCHANGED <<view, candidates, dbStats, selectedCandidateId, serverTags,
                 tagSaves, candLoads, lastTagOp>>
  /\ TagFrame

\* The candidate the profile view renders: candidateProfile, or the list
\* entry while it is null, or {} (id 0) when there is neither.
ProfileShown ==
  IF candidateProfile.id # 0 THEN candidateProfile
  ELSE IF selectedCandidateId \in DOMAIN candidates
    THEN [id |-> selectedCandidateId, tags |-> candidates[selectedCandidateId].tags,
          notes |-> candidates[selectedCandidateId].notes]
    ELSE NoCand

ProfileOpen == view = "candidateProfile" /\ selectedCandidateId # 0

\* prev ? { ...prev, tags } : prev
WithTags(prev, tags) == IF prev.id # 0 THEN [prev EXCEPT !.tags = tags] ELSE prev

\* The typed-tag updater of the profile: append unless the slice has the tag.
AppendIfNew(tags, tag) == IF HasTag(tags, tag) THEN tags ELSE Append(tags, tag)

\* Profile: the x of a tag chip.
ProfileRemoveTag ==
  /\ ProfileOpen
  /\ \E i \in 1..Len(ProfileShown.tags) :
       LET t == ProfileShown.tags[i] IN
         /\ removeTagFromCandidate(ProfileShown.id, t)
         /\ candidateProfile' = WithTags(candidateProfile, Without(candidateProfile.tags, t))
         /\ selectedCandidate' = WithTags(selectedCandidate, Without(selectedCandidate.tags, t))
         /\ TagOp("profileRemove", t)
  /\ UNCHANGED <<view, candidates, dbStats, notification, notifyTimers,
                 selectedCandidateId, serverTags, profileLoads, candLoads>>
  /\ TagFrame

\* Profile: a "+ tag" button, rendered for the suggested tags the shown
\* candidate lacks.  Both slices get the tag appended when they are not null.
ProfileAddSuggested ==
  /\ ProfileOpen
  /\ \E st \in SUGGESTED_TAGS :
       /\ ~HasTag(ProfileShown.tags, st)
       /\ Len(candidateProfile.tags) < MaxTags
       /\ Len(selectedCandidate.tags) < MaxTags
       /\ addTagToCandidate(ProfileShown.id, st)
       /\ candidateProfile' = WithTags(candidateProfile, Append(candidateProfile.tags, st))
       /\ selectedCandidate' = WithTags(selectedCandidate, Append(selectedCandidate.tags, st))
       /\ TagOp("profileSuggested", st)
  /\ UNCHANGED <<view, candidates, dbStats, notification, notifyTimers,
                 selectedCandidateId, serverTags, profileLoads, candLoads>>
  /\ TagFrame

\* Profile: "Custom tag + Enter".  Each slice runs its own duplicate check.
ProfileAddTyped ==
  /\ ProfileOpen
  /\ \E newTag \in TypedTags :
       /\ Len(candidateProfile.tags) < MaxTags
       /\ Len(selectedCandidate.tags) < MaxTags
       /\ addTagToCandidate(ProfileShown.id, newTag)
       /\ candidateProfile' = WithTags(candidateProfile, AppendIfNew(candidateProfile.tags, newTag))
       /\ selectedCandidate' = WithTags(selectedCandidate, AppendIfNew(selectedCandidate.tags, newTag))
       /\ TagOp("profileTyped", newTag)
  /\ UNCHANGED <<view, candidates, dbStats, notification, notifyTimers,
                 selectedCandidateId, serverTags, profileLoads, candLoads>>
  /\ TagFrame

\* Profile: the back button.
BackToList ==
  /\ ProfileOpen
  /\ view' = "candidates"
  /\ selectedCandidateId' = 0
  /\ candidateProfile' = NoCand
  /\ selectedCandidate' = NoCand
  /\ UNCHANGED <<candidates, dbStats, notification, notifyTimers, serverTags,
                 tagSaves, profileLoads, candLoads, lastTagOp>>
  /\ TagFrame

\* loadCandidates after its await.
CandidatesResponse ==
  /\ candLoads > 0
  /\ candLoads' = candLoads - 1
  /\ \/ /\ candidates' = ServerCandidates
        /\ dbStats' = IF lastFetch.value = ""
                        THEN [dbStats EXCEPT !.candidates = Cardinality(DOMAIN ServerCandidates)]
                        ELSE dbStats
        /\ UNCHANGED <<notification, notifyTimers>>
     \/ /\ notifyTimers < MaxNotices
        /\ Notify("Failed to load candidates")
        /\ UNCHANGED <<candidates, dbStats>>
  /\ UNCHANGED <<view, selectedCandidateId, candidateProfile, selectedCandidate,
                 serverTags, tagSaves, profileLoads, lastTagOp>>
  /\ TagFrame

\* saveCandidateTags after its await: the backend stored the tags and the list
\* entry takes them, or the request failed and only the notice is shown.
PersistResponse ==
  /\ \E i \in 1..Len(tagSaves) :
       LET s == tagSaves[i] IN
         /\ tagSaves' = SubSeq(tagSaves, 1, i - 1) \o SubSeq(tagSaves, i + 1, Len(tagSaves))
         /\ \/ /\ serverTags' = [serverTags EXCEPT ![s.id] = s.tags]
               /\ candidates' = [c \in DOMAIN candidates |->
                                   IF c = s.id THEN [candidates[c] EXCEPT !.tags = s.tags]
                                               ELSE candidates[c]]
               /\ UNCHANGED <<notification, notifyTimers>>
            \/ /\ notifyTimers < MaxNotices
               /\ Notify("Failed to save tags")
               /\ UNCHANGED <<serverTags, candidates>>
  /\ UNCHANGED <<view, dbStats, selectedCandidateId, candidateProfile,
                 selectedCandidate, profileLoads, candLoads, lastTagOp>>
  /\ TagFrame

\* The backend's tag lists at mount: without duplicates.
InitialTagLists == {<<>>, <<"Shortlisted">>}

InitTags ==
  /\ InitListing
  /\ InitDebounce
  /\ selectedCandidateId = 0
  /\ candidateProfile = NoCand
  /\ selectedCandidate = NoCand
  /\ serverTags \in [Cands -> InitialTagLists]
  /\ tagSaves = <<>>
  /\ profileLoads = 0
  /\ candLoads = 0
  /\ lastTagOp = [kind |-> "none", tag |-> "", flip |-> FALSE]
  /\ InitNotesState
  /\ InitSessionState
  /\ InitReadState /\ InitShellState
  /\ InitRunNowState
  /\ InitNotifState
  /\ InitSettingsState

NextTags ==
  \/ DebounceAuth
  \/ PreloadResponse
  \/ NavCandidates
  \/ CandidatesResponse
  \/ RowAddTyped
  \/ RowAddSuggested
  \/ RowRemoveTag
  \/ OpenProfile
  \/ ProfileResponse
  \/ ProfileRemoveTag
  \/ ProfileAddSuggested
  \/ ProfileAddTyped
  \/ BackToList
  \/ PersistResponse
  \/ NotifyTimeout

SpecTags == InitTags /\ [][NextTags]_vars

\* ---------------------------------------------------- candidate tags: properties
AddKinds == {"rowTyped", "rowSuggested", "profileTyped", "profileSuggested"}

\* The tag set the operation's control shows: the list entry in the list
\* row, the shown candidate in the profile view.
ShownTags ==
  IF view = "candidateProfile" THEN ProfileShown.tags
  ELSE IF 1 \in DOMAIN candidates THEN candidates[1].tags ELSE <<>>

\* C5: a tag-add operation whose tag the candidate's tag set already holds,
\* ignoring case, sends no persist request and changes no local slice (list
\* entry, candidateProfile, selectedCandidate).
C5_DuplicateAddIsNoOp ==
  [][(lastTagOp' # lastTagOp /\ lastTagOp'.kind \in AddKinds
        /\ HasTag(ShownTags, lastTagOp'.tag))
       => /\ tagSaves' = tagSaves
          /\ candidates' = candidates
          /\ candidateProfile' = candidateProfile
          /\ selectedCandidate' = selectedCandidate]_vars

NoDuplicates(tags) ==
  \A i, j \in 1..Len(tags) : i # j => toLowerCase[tags[i]] # toLowerCase[tags[j]]

\* C6: no list entry, candidateProfile, selectedCandidate or tag set sent to
\* the server holds two tags that are equal ignoring case.
C6_NoCaseInsensitiveDuplicates ==
  /\ \A c \in DOMAIN candidates : NoDuplicates(candidates[c].tags)
  /\ NoDuplicates(candidateProfile.tags)
  /\ NoDuplicates(selectedCandidate.tags)
  /\ \A i \in 1..Len(tagSaves) : NoDuplicates(tagSaves[i].tags)

\* C15: in the state right after a tag add or remove that sends a tag set to
\* the backend, the list entry of that candidate and, where they hold that
\* candidate, candidateProfile and selectedCandidate all carry the sent set.
C15_TagsAppliedEverywhere ==
  [][Len(tagSaves') > Len(tagSaves) =>
       LET sent == tagSaves'[Len(tagSaves')] IN
         /\ sent.id \in DOMAIN candidates' => candidates'[sent.id].tags = sent.tags
         /\ candidateProfile'.id = sent.id => candidateProfile'.tags = sent.tags
         /\ selectedCandidate'.id = sent.id => selectedCandidate'.tags = sent.tags]_vars

\* What a tag operation makes of a tag list.
Edited(tags, op) ==
  IF op.kind \in AddKinds THEN AppendIfNew(tags, op.tag) ELSE Without(tags, op.tag)

\* C27: a second tag edit on a candidate whose first edit is still being
\* saved builds on the first: the tags it sends are the tags the first save
\* sent with the second edit applied, so that once both saves have succeeded
\* the backend and the list entry hold both edits.
C27_SecondEditKeepsFirst ==
  [][(/\ Len(tagSaves) = 1
      /\ Len(tagSaves') = 2
      /\ tagSaves'[2].id = tagSaves[1].id) =>
        tagSaves'[2].tags = Edited(tagSaves[1].tags, lastTagOp')]_vars

\* ------------------------------------------------------------ candidate notes
\* The texts a recruiter types into a notes field.
NoteTexts == {"a", "b"}

NotesFrame == UNCHANGED <<authenticated, emails, pagination, emailsFromCache, loading,
                          activeFolder, searchQuery, inboxFilters, req, nreq, preload,
                          now, debouncedSearch, searchTimers, lastSearchChange,
                          candidateSearch, debouncedCandSearch, candTimers,
                          lastCandChange, nFetches, lastFetch, view, dbStats,
                          selectedCandidateId, serverTags, tagSaves, profileLoads,
                          candLoads, lastTagOp, sessionVars, shellVars, readVars, runVars, notifVars,
                          settingsVars>>

\* No notes field holds the focus with typed text.
NoDraft == \A c \in DOMAIN candidateNotesDraft : candidateNotesDraft[c] = UNDEFINED

\* The candidates whose notes field is rendered: every row of the list view,
\* or the candidate of the profile view.
NotesFields ==
  IF view = "candidates" THEN DOMAIN candidates
  ELSE IF ProfileOpen /\ ProfileShown.id # 0 THEN {ProfileShown.id}
  ELSE {}

\* The record c the rendered notes field of candidate id reads.
NotesRecord(id) ==
  IF view = "candidates" THEN [id |-> id, tags |-> candidates[id].tags,
                               notes |-> candidates[id].notes]
                         ELSE ProfileShown

\* value = draft[c.id] !== undefined ? draft[c.id] : (c.notes || "")
NotesValue(id) ==
  IF candidateNotesDraft[id] # UNDEFINED THEN candidateNotesDraft[id]
                                         ELSE NotesRecord(id).notes

\* onChange of a notes textarea.
SetNotesDraft ==
  /\ \E id \in NotesFields, text \in NoteTexts \cup {""} :
       /\ text # NotesValue(id)
       /\ \A c \in DOMAIN candidateNotesDraft :
            c # id => candidateNotesDraft[c] = UNDEFINED
       /\ candidateNotesDraft' = [candidateNotesDraft EXCEPT ![id] = text]
  /\ UNCHANGED <<candidates, candidateProfile, selectedCandidate, serverNotes,
                 noteSaves, notification, notifyTimers>>
  /\ NotesFrame

\* saveCandidateNotes up to its await: the PATCH leaves the client.
SendNotes(id, notes) == noteSaves' = Append(noteSaves, [id |-> id, notes |-> notes])

\* delete n[c.id]
DropDraft(id) == candidateNotesDraft' = [candidateNotesDraft EXCEPT ![id] = UNDEFINED]

\* onBlur of the notes textarea of a list row.
RowNotesBlur ==
  /\ view = "candidates"
  /\ \E id \in NotesFields :
       LET draft == candidateNotesDraft[id] IN
         /\ draft # UNDEFINED
         /\ IF draft # candidates[id].notes
              THEN Len(noteSaves) < MaxSaves /\ SendNotes(id, draft)
              ELSE UNCHANGED noteSaves
         /\ DropDraft(id)
  /\ UNCHANGED <<candidates, candidateProfile, selectedCandidate, serverNotes,
                 notification, notifyTimers>>
  /\ NotesFrame

\* prev ? { ...prev, notes: draft } : prev
WithNotes(prev, notes) == IF prev.id # 0 THEN [prev EXCEPT !.notes = notes] ELSE prev

\* onBlur of the notes textarea of the profile view.
ProfileNotesBlur ==
  /\ view = "candidateProfile"
  /\ \E id \in NotesFields :
       LET draft == candidateNotesDraft[id] IN
         /\ draft # UNDEFINED
         /\ IF draft # ProfileShown.notes
              THEN /\ Len(noteSaves) < MaxSaves
                   /\ SendNotes(id, draft)
                   /\ candidateProfile' = WithNotes(candidateProfile, draft)
                   /\ selectedCandidate' = WithNotes(selectedCandidate, draft)
              ELSE UNCHANGED <<noteSaves, candidateProfile, selectedCandidate>>
         /\ DropDraft(id)
  /\ UNCHANGED <<candidates, serverNotes, notification, notifyTimers>>
  /\ NotesFrame

\* saveCandidateNotes after its await: the backend stored the notes and the
\* list entry takes them, or the request failed and only the notice is shown.
NotesPersistResponse ==
  /\ \E i \in 1..Len(noteSaves) :
       LET s == noteSaves[i] IN
         /\ noteSaves' = SubSeq(noteSaves, 1, i - 1)
                           \o SubSeq(noteSaves, i + 1, Len(noteSaves))
         /\ \/ /\ serverNotes' = [serverNotes EXCEPT ![s.id] = s.notes]
               /\ candidates' = [c \in DOMAIN candidates |->
                                   IF c = s.id THEN [candidates[c] EXCEPT !.notes = s.notes]
                                               ELSE candidates[c]]
               /\ UNCHANGED <<notification, notifyTimers>>
            \/ /\ notifyTimers < MaxNotices
               /\ Notify("Failed to save notes")
               /\ UNCHANGED <<serverNotes, candidates>>
  /\ UNCHANGED <<candidateProfile, selectedCandidate, candidateNotesDraft>>
  /\ NotesFrame

\* A click on a row, on Back or on the Candidates tab takes the focus from a
\* notes field first, so these run with no draft held.
OpenProfileUnfocused == NoDraft /\ OpenProfile
BackToListUnfocused == NoDraft /\ BackToList
NavCandidatesUnfocused == NoDraft /\ NavCandidates

NextNotes ==
  \/ DebounceAuth
  \/ PreloadResponse
  \/ NavCandidatesUnfocused
  \/ CandidatesResponse
  \/ OpenProfileUnfocused
  \/ ProfileResponse
  \/ BackToListUnfocused
  \/ SetNotesDraft
  \/ RowNotesBlur
  \/ ProfileNotesBlur
  \/ NotesPersistResponse
  \/ NotifyTimeout

SpecNotes == InitTags /\ [][NextNotes]_vars

\* ------------------------------------------------ candidate notes: properties
\* The persist of noteSaves[i] fails in this step.
NotesPersistFails(i) ==
  /\ i \in 1..Len(noteSaves)
  /\ noteSaves' = SubSeq(noteSaves, 1, i - 1) \o SubSeq(noteSaves, i + 1, Len(noteSaves))
  /\ notification' = "Failed to save notes"
  /\ notifyTimers' = notifyTimers + 1

\* C13: when the persist of typed notes fails, the notes field of that
\* candidate (list row or profile view) still shows the typed text, or text
\* typed since, held in the draft buffer; it has not fallen back to another
\* value.
C13_TypedNotesKeptOnFailure ==
  [][\A i \in 1..MaxSaves, c \in Cands, typed \in NoteTexts \cup {""} :
       (/\ NotesPersistFails(i)
        /\ noteSaves[i] = [id |-> c, notes |-> typed]
        /\ c \in NotesFields') =>
         \/ candidateNotesDraft'[c] # UNDEFINED
         \/ NotesValue(c)' = typed]_vars

\* rec keeps its candidate over the step and its notes differ afterwards.
NotesChange(rec, recNext) ==
  rec.id # 0 /\ recNext.id = rec.id /\ recNext.notes # rec.notes

\* C14: a failing notes persist leaves the notes of the list entry,
\* candidateProfile and selectedCandidate as they were and raises the notice,
\* and whenever the notes of one of these records change, they change to what
\* the backend has stored.
C14_NotesChangeOnlyWhenPersisted ==
  [][/\ \A i \in 1..MaxSaves :
          NotesPersistFails(i) =>
            /\ candidates' = candidates
            /\ candidateProfile' = candidateProfile
            /\ selectedCandidate' = selectedCandidate
     /\ \A c \in DOMAIN candidates \cap DOMAIN candidates' :
          candidates'[c].notes # candidates[c].notes =>
            candidates'[c].notes = serverNotes'[c]
     /\ NotesChange(candidateProfile, candidateProfile') =>
          candidateProfile'.notes = serverNotes'[candidateProfile.id]
     /\ NotesChange(selectedCandidate, selectedCandidate') =>
          selectedCandidate'.notes = serverNotes'[selectedCandidate.id]]_vars

\* ============================================== SESSION GATE, LOGOUT, LOADERS
SessionFrame == UNCHANGED <<activeFolder, searchQuery, inboxFilters, preload, dbStats,
                            candidates, now, debouncedSearch, searchTimers,
                            lastSearchChange, candidateSearch, debouncedCandSearch,
                            candTimers, lastCandChange, nFetches, lastFetch, tagVars,
                            notesVars, notifVars, settingsVars, mounted, shellVars, readVars, runVars>>

\* The sessions the backend may hold when the page is opened.
Sessions == {{}, {"imap"}, {"oauth2"}}

\* The mount effect: with ?auth=success in the URL it asks for the Microsoft
\* session first ("msFirst"), otherwise it calls checkAuth ("status").
InitSession ==
  /\ InitListing
  /\ InitDebounce
  /\ InitTagState
  /\ InitNotesState
  /\ authLoading = TRUE
  /\ authMethod = "imap"
  /\ serverSession \in Sessions
  /\ gate \in {"status", "msFirst"}
  /\ error = NULL
  /\ folders = 0
  /\ folderLoads = 0
  /\ selectedEmail = NULL
  /\ emailOpens = 0
  /\ stats = NULL
  /\ statsLoads = 0
  /\ logoutReq = NULL
  /\ mounted = TRUE
  /\ InitRunNowState
  /\ InitReadState /\ InitShellState
  /\ InitNotifState
  /\ InitSettingsState

\* setAuth({loading: false, authenticated: true, ...}); setAuthMethod(method);
\* loadFolders(); loadEmails().
EnterDashboard(method) ==
  /\ authLoading' = FALSE
  /\ authenticated' = TRUE
  /\ authMethod' = method
  /\ folderLoads' = folderLoads + 1
  /\ LoadEmailsCall(NULL, 0, "", NoFilters, FALSE)
  /\ error' = NULL
  /\ gate' = "done"
  /\ UNCHANGED <<emails, pagination, emailsFromCache, notification, notifyTimers,
                 view, serverSession, folders, selectedEmail, emailOpens, stats,
                 statsLoads, logoutReq>>

\* setAuth({loading: false, authenticated: false, user: null})
EnterLogin(err) ==
  /\ authLoading' = FALSE
  /\ authenticated' = FALSE
  /\ error' = err
  /\ gate' = "done"
  /\ UNCHANGED <<emails, pagination, emailsFromCache, loading, notification,
                 notifyTimers, req, nreq, view, authMethod, serverSession, folders,
                 folderLoads, selectedEmail, emailOpens, stats, statsLoads, logoutReq>>

\* The mount effect after `await fetch(/auth/microsoft/status)` on the OAuth2
\* redirect: connected enters the dashboard, anything else calls checkAuth.
RedirectStatusResponse ==
  /\ gate = "msFirst"
  /\ \/ "oauth2" \in serverSession /\ EnterDashboard("oauth2")
     \/ /\ gate' = "status"
        /\ UNCHANGED <<authenticated, emails, pagination, emailsFromCache, loading,
                       notification, notifyTimers, req, nreq, view, authLoading,
                       authMethod, serverSession, error, folders, folderLoads,
                       selectedEmail, emailOpens, stats, statsLoads, logoutReq>>
  /\ SessionFrame

\* checkAuth after `await fetch(/auth/status)`: a password session enters the
\* dashboard, an answer without one goes on to the Microsoft check, a failed
\* request (non-2xx or network error) lands in the catch block.
StatusResponse ==
  /\ gate = "status"
  /\ \/ "imap" \in serverSession /\ EnterDashboard("imap")
     \/ /\ "imap" \notin serverSession
        /\ gate' = "ms"
        /\ UNCHANGED <<authenticated, emails, pagination, emailsFromCache, loading,
                       notification, notifyTimers, req, nreq, view, authLoading,
                       authMethod, serverSession, error, folders, folderLoads,
                       selectedEmail, emailOpens, stats, statsLoads, logoutReq>>
     \/ EnterLogin("Cannot connect to backend server")
  /\ SessionFrame

\* checkAuth after `await fetch(/auth/microsoft/status).catch(() => null)`.
MsStatusResponse ==
  /\ gate = "ms"
  /\ \/ "oauth2" \in serverSession /\ EnterDashboard("oauth2")
     \/ EnterLogin(error)
  /\ SessionFrame

\* loadFolders after its await: the folders, or console.error only.
FoldersResponse ==
  /\ folderLoads > 0
  /\ folderLoads' = folderLoads - 1
  /\ \/ folders' = 1
     \/ UNCHANGED folders
  /\ UNCHANGED <<authenticated, emails, pagination, emailsFromCache, loading,
                 notification, notifyTimers, req, nreq, view, authLoading, authMethod,
                 gate, serverSession, error, selectedEmail, emailOpens, stats,
                 statsLoads, logoutReq>>
  /\ SessionFrame

\* A click on a row of the inbox: loadEmail up to its await.
OpenEmail ==
  /\ authenticated
  /\ view = "inbox"
  /\ emails.len > 0
  /\ emailOpens < MaxLoads
  /\ emailOpens' = emailOpens + 1
  /\ loading' = TRUE
  /\ error' = NULL
  /\ UNCHANGED <<authenticated, emails, pagination, emailsFromCache, notification,
                 notifyTimers, req, nreq, view, authLoading, authMethod, gate,
                 serverSession, folders, folderLoads, selectedEmail, stats,
                 statsLoads, logoutReq>>
  /\ SessionFrame

\* loadEmail after its await.
EmailResponse ==
  /\ emailOpens > 0
  /\ emailOpens' = emailOpens - 1
  /\ loading' = FALSE
  /\ \/ /\ selectedEmail' = 1
        /\ view' = "email"
        /\ UNCHANGED <<notification, notifyTimers>>
     \/ /\ notifyTimers < MaxNotices
        /\ Notify("Failed to load email")
        /\ UNCHANGED <<selectedEmail, view>>
  /\ UNCHANGED <<authenticated, emails, pagination, emailsFromCache, req, nreq,
                 authLoading, authMethod, gate, serverSession, error, folders,
                 folderLoads, stats, statsLoads, logoutReq>>
  /\ SessionFrame

\* The Statistics tab: setView, setSelectedEmail(null), loadStats up to its
\* await.
NavStats ==
  /\ authenticated
  /\ view # "stats"
  /\ statsLoads < MaxLoads
  /\ view' = "stats"
  /\ selectedEmail' = NULL
  /\ statsLoads' = statsLoads + 1
  /\ loading' = TRUE
  /\ error' = NULL
  /\ UNCHANGED <<authenticated, emails, pagination, emailsFromCache, notification,
                 notifyTimers, req, nreq, authLoading, authMethod, gate,
                 serverSession, folders, folderLoads, emailOpens, stats, logoutReq>>
  /\ SessionFrame

\* loadStats after its await.
StatsResponse ==
  /\ statsLoads > 0
  /\ statsLoads' = statsLoads - 1
  /\ loading' = FALSE
  /\ \/ /\ stats' = "stats"
        /\ UNCHANGED <<notification, notifyTimers>>
     \/ /\ notifyTimers < MaxNotices
        /\ Notify("Failed to load stats")
        /\ UNCHANGED stats
  /\ UNCHANGED <<authenticated, emails, pagination, emailsFromCache, req, nreq, view,
                 authLoading, authMethod, gate, serverSession, error, folders,
                 folderLoads, selectedEmail, emailOpens, logoutReq>>
  /\ SessionFrame

\* The endpoint logout posts to.
LogoutEndpoint(method) ==
  IF method = "oauth2" THEN "/auth/microsoft/logout" ELSE "/auth/logout"

\* The Logout button: logout up to its await.
Logout ==
  /\ authenticated
  /\ logoutReq = NULL
  /\ logoutReq' = LogoutEndpoint(authMethod)
  /\ UNCHANGED <<authenticated, emails, pagination, emailsFromCache, loading,
                 notification, notifyTimers, req, nreq, view, authLoading, authMethod,
                 gate, serverSession, error, folders, folderLoads, selectedEmail,
                 emailOpens, stats, statsLoads>>
  /\ SessionFrame

\* The backend's sessions after a POST to the endpoint was served.
SessionsAfter(endpoint) ==
  serverSession \ {IF endpoint = "/auth/microsoft/logout" THEN "oauth2" ELSE "imap"}

\* logout after its await.  fetch resolves for every HTTP status and the
\* resets run; it rejects on a network error, and the await, which no try
\* block surrounds, ends the function there.
LogoutResponse ==
  /\ logoutReq # NULL
  /\ logoutReq' = NULL
  /\ \/ /\ serverSession' \in {serverSession, SessionsAfter(logoutReq)}
        /\ authLoading' = FALSE
        /\ authenticated' = FALSE
        /\ authMethod' = "imap"
        /\ emails' = EmptyList
        /\ folders' = 0
        /\ selectedEmail' = NULL
        /\ stats' = NULL
     \/ UNCHANGED <<serverSession, authLoading, authenticated, authMethod, emails,
                    folders, selectedEmail, stats>>
  /\ UNCHANGED <<pagination, emailsFromCache, loading, notification, notifyTimers,
                 req, nreq, view, gate, error, folderLoads, emailOpens, statsLoads>>
  /\ SessionFrame

NextSession ==
  \/ RedirectStatusResponse
  \/ StatusResponse
  \/ MsStatusResponse
  \/ FoldersResponse
  \/ LiveResponse
  \/ CacheResponse
  \/ OpenEmail
  \/ EmailResponse
  \/ NavStats
  \/ StatsResponse
  \/ Logout
  \/ LogoutResponse
  \/ NotifyTimeout

SpecSession == InitSession /\ [][NextSession]_vars

\* ------------------------------------------------------- session: properties
\* The logout request completes in this step.
LogoutCompletes == logoutReq # NULL /\ logoutReq' = NULL

\* C16: when a logout request completes, it was sent to the endpoint of the
\* method the session was opened with, and the client is unauthenticated with
\* no emails, no folders, no selected email and no statistics.
C16_LogoutResetsClient ==
  [][LogoutCompletes =>
       /\ \E m \in serverSession : logoutReq = LogoutEndpoint(m)
       /\ ~authenticated'
       /\ emails' = EmptyList
       /\ folders' = 0
       /\ selectedEmail' = NULL
       /\ stats' = NULL]_vars

\* The backend holds the session the check answered in this step asks for.
CheckReportsSession ==
  \/ gate = "status" /\ "imap" \in serverSession
  \/ gate \in {"ms", "msFirst"} /\ "oauth2" \in serverSession

\* C17: a status check that ends without an authenticated session is followed
\* by the delegated-session check; the gate leaves loading into the dashboard
\* only when the check just answered found its session; and entering the
\* dashboard issues the folder load and the default email-page load.
C17_GateChecksBothSessions ==
  [][/\ (gate = "status" /\ gate' # "status" /\ ~authenticated') => gate' = "ms"
     /\ (authLoading /\ ~authLoading') => (authenticated' => CheckReportsSession)
     /\ (~authenticated /\ authenticated') =>
          /\ folderLoads' = folderLoads + 1
          /\ nreq' = nreq + 1
          /\ req'[nreq'].phase = "live"
          /\ req'[nreq'].liveQuery = LiveParams(NULL, 0, "", NoFilters)]_vars

\* notify(..., "error") ran in this step.
NoticeRaised == notification' # "none" /\ notifyTimers' = notifyTimers + 1

\* C18: when a request of the folders, email detail or statistics loader
\* completes, either its slice holds what the response delivered, or the slice
\* is as before and an error notice is raised.
C18_FailedLoaderNotifies ==
  [][/\ folderLoads' < folderLoads =>
          folders' = 1 \/ (folders' = folders /\ NoticeRaised)
     /\ emailOpens' < emailOpens =>
          selectedEmail' = 1 \/ (selectedEmail' = selectedEmail /\ NoticeRaised)
     /\ statsLoads' < statsLoads =>
          stats' = "stats" \/ (stats' = stats /\ NoticeRaised)]_vars

\* ------------------------------------------------------------ notifications
NotifFrame == UNCHANGED <<authenticated, emails, pagination, emailsFromCache, loading,
                          notification, notifyTimers, activeFolder, searchQuery,
                          inboxFilters, req, nreq, preload, dbStats, candidates,
                          now, debouncedSearch, searchTimers, lastSearchChange,
                          candidateSearch, debouncedCandSearch, candTimers,
                          lastCandChange, nFetches, lastFetch, tagVars, notesVars,
                          sessionVars, shellVars, readVars, runVars, settingsVars>>

\* GET /api/notifications/count: data.unread_count.
UnreadOnServer == Cardinality({id \in NotifIds : serverNotifs[id] = "unread"})

\* The backend creates the next notification.
ServerNotifies ==
  /\ \E id \in NotifIds :
       /\ serverNotifs[id] = "absent"
       /\ \A j \in NotifIds : j < id => serverNotifs[j] # "absent"
       /\ serverNotifs' = [serverNotifs EXCEPT ![id] = "unread"]
  /\ UNCHANGED <<view, notifications, notifDropdownOpen, unreadCount,
                 prevUnreadCountRef, notifLoads, pollReq, nPolls, toasts, toastCount,
                 lastTick, compared>>
  /\ NotifFrame

\* The mount call of loadNotificationCount returns: the updater stores the
\* state it replaces in prevUnreadCountRef.
MountCountResponse ==
  /\ pollReq = "mount"
  /\ pollReq' = "idle"
  /\ \/ /\ prevUnreadCountRef' = unreadCount
        /\ unreadCount' = UnreadOnServer
        /\ lastTick' = UnreadOnServer
     \/ UNCHANGED <<prevUnreadCountRef, unreadCount, lastTick>>
  /\ UNCHANGED <<view, serverNotifs, notifications, notifDropdownOpen, notifLoads,
                 nPolls, toasts, toastCount, compared>>
  /\ NotifFrame

\* The 60 s interval fires: loadNotificationCount up to its await.
PollTick ==
  /\ pollReq = "idle"
  /\ nPolls < MaxPolls
  /\ pollReq' = "count"
  /\ nPolls' = nPolls + 1
  /\ UNCHANGED <<view, serverNotifs, notifications, notifDropdownOpen, unreadCount,
                 prevUnreadCountRef, notifLoads, toasts, toastCount, lastTick, compared>>
  /\ NotifFrame

\* The value of prevUnreadCountRef.current the tick's comparison reads.  The
\* updater passed to setUnreadCount writes the ref; React runs it inside the
\* setUnreadCount call (eager) or at the next render, after the comparison.
RefAtComparison(eager) == IF eager THEN unreadCount ELSE prevUnreadCountRef

\* The tick's count fetch returns.  On success the updater runs, the new
\* count is compared with the ref and, if greater, the list fetch is issued.
CountResponse ==
  /\ pollReq = "count"
  /\ \/ \E eager \in BOOLEAN :
          LET newCount == UnreadOnServer IN
            /\ compared' = [tick |-> nPolls, prev |-> RefAtComparison(eager),
                            new |-> newCount, seen |-> lastTick]
            /\ prevUnreadCountRef' = unreadCount
            /\ unreadCount' = newCount
            /\ lastTick' = newCount
            /\ pollReq' = IF newCount > RefAtComparison(eager) THEN "list" ELSE "idle"
     \/ /\ pollReq' = "idle"
        /\ UNCHANGED <<compared, prevUnreadCountRef, unreadCount, lastTick>>
  /\ UNCHANGED <<view, serverNotifs, notifications, notifDropdownOpen, notifLoads,
                 nPolls, toasts, toastCount>>
  /\ NotifFrame

\* items.filter((n) => !n.is_read && n.type === "new_high_fit").slice(0, 3),
\* the items being the most recent first.
ToToast ==
  LET fit == {id \in NotifIds : serverNotifs[id] = "unread" /\ NotifType[id] = "new_high_fit"}
  IN {id \in fit : Cardinality({j \in fit : j > id}) < 3}

\* The tick's list fetch returns: showToast for each selected item.
ListResponse ==
  /\ pollReq = "list"
  /\ pollReq' = "idle"
  /\ \/ /\ toastCount' = [id \in NotifIds |->
                            IF id \in ToToast THEN toastCount[id] + 1 ELSE toastCount[id]]
        /\ toasts' = toasts + Cardinality(ToToast)
     \/ UNCHANGED <<toastCount, toasts>>
  /\ UNCHANGED <<view, serverNotifs, notifications, notifDropdownOpen, unreadCount,
                 prevUnreadCountRef, notifLoads, nPolls, lastTick, compared>>
  /\ NotifFrame

\* A toast's 5 s timer fires.
ToastTimeout ==
  /\ toasts > 0
  /\ toasts' = toasts - 1
  /\ UNCHANGED <<view, serverNotifs, notifications, notifDropdownOpen, unreadCount,
                 prevUnreadCountRef, notifLoads, pollReq, nPolls, toastCount, lastTick,
                 compared>>
  /\ NotifFrame

\* The bell: the dropdown opens (and its effect calls loadNotifications) or
\* closes.
ToggleDropdown ==
  /\ authenticated
  /\ notifDropdownOpen' = ~notifDropdownOpen
  /\ IF ~notifDropdownOpen
       THEN notifLoads < MaxLoads /\ notifLoads' = notifLoads + 1
       ELSE UNCHANGED notifLoads
  /\ UNCHANGED <<view, serverNotifs, notifications, unreadCount, prevUnreadCountRef,
                 pollReq, nPolls, toasts, toastCount, lastTick, compared>>
  /\ NotifFrame

\* loadNotifications after its await.
NotificationsResponse ==
  /\ notifLoads > 0
  /\ notifLoads' = notifLoads - 1
  /\ \/ notifications' = serverNotifs
     \/ UNCHANGED notifications
  /\ UNCHANGED <<view, serverNotifs, notifDropdownOpen, unreadCount, prevUnreadCountRef,
                 pollReq, nPolls, toasts, toastCount, lastTick, compared>>
  /\ NotifFrame

ReadFrame == UNCHANGED <<authenticated, emails, pagination, emailsFromCache, loading,
                         notification, notifyTimers, activeFolder, searchQuery,
                         inboxFilters, req, nreq, preload, dbStats, candidates,
                         now, debouncedSearch, searchTimers, lastSearchChange,
                         candidateSearch, debouncedCandSearch, candTimers,
                         lastCandChange, nFetches, lastFetch, tagVars, notesVars,
                         sessionVars, shellVars, runVars, settingsVars, prevUnreadCountRef,
                         pollReq, nPolls, toasts, toastCount, lastTick, compared>>

\* Math.max(0, c - 1)
Decrement(c) == IF c - 1 > 0 THEN c - 1 ELSE 0

\* A click on an item of the dropdown.  For an item the rendered list shows
\* as unread the handler stops at `await fetch(.../read)`; for a read one it
\* closes the dropdown and follows the item's type at once.
ClickNotification ==
  /\ notifDropdownOpen
  /\ \E id \in NotifIds :
       /\ notifications[id] # "absent"
       /\ IF notifications[id] = "unread"
            THEN /\ Len(readPatches) < MaxReads
                 /\ readPatches' = Append(readPatches, id)
                 /\ UNCHANGED <<view, notifDropdownOpen>>
            ELSE /\ view' = IF NotifType[id] = "new_high_fit" THEN "jobs" ELSE "candidates"
                 /\ notifDropdownOpen' = FALSE
                 /\ UNCHANGED readPatches
  /\ UNCHANGED <<serverNotifs, notifications, unreadCount, notifLoads, markAllReqs>>
  /\ ReadFrame

\* The click handler after its await: whatever the PATCH answered (the catch
\* is empty), the item is marked read locally, the count decremented, the
\* dropdown closed and the view switched.
ReadResponse ==
  /\ \E i \in 1..Len(readPatches) :
       LET id == readPatches[i] IN
         /\ readPatches' = SubSeq(readPatches, 1, i - 1)
                             \o SubSeq(readPatches, i + 1, Len(readPatches))
         /\ \/ serverNotifs' = [serverNotifs EXCEPT ![id] = "read"]
            \/ UNCHANGED serverNotifs
         /\ notifications' = [notifications EXCEPT
                                ![id] = IF @ = "absent" THEN @ ELSE "read"]
         /\ unreadCount' = Decrement(unreadCount)
         /\ view' = IF NotifType[id] = "new_high_fit" THEN "jobs" ELSE "candidates"
  /\ notifDropdownOpen' = FALSE
  /\ UNCHANGED <<notifLoads, markAllReqs>>
  /\ ReadFrame

\* "Mark all read": the handler up to `await fetch(.../read-all)`.
MarkAllRead ==
  /\ notifDropdownOpen
  /\ markAllReqs < MaxLoads
  /\ markAllReqs' = markAllReqs + 1
  /\ UNCHANGED <<view, serverNotifs, notifications, notifDropdownOpen, unreadCount,
                 notifLoads, readPatches>>
  /\ ReadFrame

\* "Mark all read" after its await: a fetch that resolves (the status is not
\* looked at) is followed by setUnreadCount(0) and loadNotifications(); one
\* that rejects lands in the empty catch.
MarkAllResponse ==
  /\ markAllReqs > 0
  /\ markAllReqs' = markAllReqs - 1
  /\ \/ /\ notifLoads < MaxLoads
        /\ \/ serverNotifs' = [id \in NotifIds |->
                                 IF serverNotifs[id] = "unread" THEN "read"
                                                                ELSE serverNotifs[id]]
           \/ UNCHANGED serverNotifs
        /\ unreadCount' = 0
        /\ notifLoads' = notifLoads + 1
     \/ UNCHANGED <<serverNotifs, unreadCount, notifLoads>>
  /\ UNCHANGED <<view, notifications, notifDropdownOpen, readPatches>>
  /\ ReadFrame

NextNotif ==
  \/ DebounceAuth
  \/ ServerNotifies
  \/ MountCountResponse
  \/ PollTick
  \/ CountResponse
  \/ ListResponse
  \/ ToastTimeout
  \/ ToggleDropdown
  \/ NotificationsResponse
  \/ ClickNotification
  \/ ReadResponse
  \/ MarkAllRead
  \/ MarkAllResponse

SpecNotif == InitL /\ [][NextNotif]_vars

\* ------------------------------------------------ notifications: properties
\* C7: the value a tick compares the new count against is the count the
\* immediately preceding count fetch returned.
C7_ComparesWithPrecedingTick ==
  [][compared' # compared => compared'.prev = lastTick]_vars

\* C8: an unread high-fit notification is toasted by at most one poll.
C8_NoRepeatedToast == \A id \in NotifIds : toastCount[id] <= 1

\* C22: a poll raises toasts only when the count it fetched exceeds the count
\* the preceding fetch returned (compared.seen), and then at most 3, each for
\* an unread high-fit item.
C22_ToastsOnlyOnIncrease ==
  [][toasts' > toasts =>
       /\ compared.new > compared.seen
       /\ toasts' - toasts <= 3
       /\ \A id \in NotifIds :
            toastCount'[id] > toastCount[id] =>
              serverNotifs[id] = "unread" /\ NotifType[id] = "new_high_fit"]_vars

\* C23: the click on an unread notification marks it read locally and
\* decrements the count in the step that sends the PATCH, and Mark all read
\* zeroes the count in the step that sends its PATCH; a click on a read item
\* leaves the count alone.
C23_ReadIsOptimistic ==
  [][/\ \A id \in NotifIds :
          readPatches' = Append(readPatches, id) =>
            /\ notifications'[id] = "read"
            /\ unreadCount' = Decrement(unreadCount)
     /\ markAllReqs' > markAllReqs => unreadCount' = 0
     /\ (notifDropdownOpen /\ ~notifDropdownOpen' /\ readPatches' = readPatches) =>
          unreadCount' = unreadCount]_vars

\* =================================================== TIMERS AND TEARDOWN
\* The component is unmounted: the cleanup of each useDebounce effect clears
\* its timer and the cleanup of the poll effect clears the interval.  The
\* timeouts of notify and showToast have no cleanup.
Unmount ==
  /\ mounted
  /\ mounted' = FALSE
  /\ searchTimers' = {}
  /\ candTimers' = {}
  /\ UNCHANGED <<listingVars, candidates, now, view, debouncedSearch, lastSearchChange,
                 candidateSearch, debouncedCandSearch, lastCandChange, nFetches,
                 lastFetch, tagVars, notesVars, authLoading, authMethod, gate,
                 serverSession, error, folders, folderLoads, selectedEmail,
                 emailOpens, stats, statsLoads, logoutReq, notifVars, settingsVars, shellVars, readVars, runVars>>

\* Handlers and the interval run only while the component is mounted.
AuthMounted == mounted /\ DebounceAuth
SetSearchQueryMounted == mounted /\ SetSearchQuery
NavCandidatesMounted == mounted /\ NavCandidates
PollTickMounted == mounted /\ PollTick

NextTimers ==
  \/ Tick
  \/ AuthMounted
  \/ SetSearchQueryMounted
  \/ NavCandidatesMounted
  \/ SearchTimerFires
  \/ CandTimerFires
  \/ CandidatesResponse
  \/ NotifyTimeout
  \/ ServerNotifies
  \/ MountCountResponse
  \/ PollTickMounted
  \/ CountResponse
  \/ ListResponse
  \/ ToastTimeout
  \/ Unmount

SpecTimers == InitL /\ [][NextTimers]_vars

\* ------------------------------------------------------- timers: properties
\* C20: after the component is unmounted no timer callback writes state: no
\* debounce timer stores its value, the poll does not tick, and no notify or
\* toast timeout clears a notice or a toast.
C20_NoTimerWriteAfterUnmount ==
  [][~mounted =>
       /\ debouncedSearch' = debouncedSearch
       /\ debouncedCandSearch' = debouncedCandSearch
       /\ nPolls' = nPolls
       /\ notifyTimers' >= notifyTimers
       /\ toasts' >= toasts]_vars

\* ----------------------------------------------------------------- settings
SettingsFrame == UNCHANGED <<authenticated, emails, pagination, emailsFromCache, loading,
                             activeFolder, searchQuery, inboxFilters, req, nreq, preload,
                             dbStats, now, debouncedSearch, searchTimers,
                             lastSearchChange, candidateSearch, debouncedCandSearch,
                             candTimers, lastCandChange, nFetches, lastFetch, tagVars,
                             notesVars, sessionVars, shellVars, readVars, runVars, notifVars>>

\* The values the scheduler form's inputs take.
Intervals == {30, 60}
SchedFolders == {"", "INBOX"}
SubjectFilters == {"", "CV"}

\* v || d
OrElse(v, d) == IF Truthy(v) THEN v ELSE d

\* const isEnabled = sc?.enabled || false
isEnabled == schedulerConfig.loaded /\ schedulerConfig.enabled

\* loadSchedulerConfig up to its await; unlock marks the call the toggle and
\* Save handlers await before setSchedulerLoading(false).
LoadSchedulerConfig(unlock) ==
  /\ Len(schedGets) < MaxLoads
  /\ schedGets' = Append(schedGets, [unlock |-> unlock])

\* Sidebar: Settings.  The settings effect calls loadSchedulerConfig.
NavSettings ==
  /\ authenticated
  /\ view # "settings"
  /\ ~showClearModal
  /\ view' = "settings"
  /\ LoadSchedulerConfig(FALSE)
  /\ UNCHANGED <<notification, notifyTimers, candidates, schedulerConfig,
                 schedulerLoading, schedulerForm, serverScheduler, schedPosts,
                 lastToggle, clearConfirmText, showClearModal, clearDeletes>>
  /\ SettingsFrame

\* Away from the settings view.
NavAway ==
  /\ view = "settings"
  /\ ~showClearModal
  /\ view' = "scrape"
  /\ UNCHANGED <<notification, notifyTimers, candidates, settingsVars>>
  /\ SettingsFrame

\* The 30 s interval of the settings view.
SettingsPoll ==
  /\ view = "settings"
  /\ LoadSchedulerConfig(FALSE)
  /\ UNCHANGED <<view, notification, notifyTimers, candidates, schedulerConfig,
                 schedulerLoading, schedulerForm, serverScheduler, schedPosts,
                 lastToggle, clearConfirmText, showClearModal, clearDeletes>>
  /\ SettingsFrame

\* loadSchedulerConfig after its await (failures are silent), followed by the
\* finally block of the handler that awaited it.
SchedulerStatusResponse ==
  /\ schedGets # <<>>
  /\ schedGets' = Tail(schedGets)
  /\ \/ /\ schedulerConfig' = [loaded |-> TRUE,
                               enabled |-> serverScheduler.enabled,
                               interval_minutes |-> serverScheduler.interval_minutes,
                               folder |-> serverScheduler.folder,
                               subject_filter |-> serverScheduler.subject_filter]
        /\ schedulerForm' = [interval_minutes |-> serverScheduler.interval_minutes,
                             folder |-> OrElse(serverScheduler.folder, "INBOX"),
                             subject_filter |-> OrElse(serverScheduler.subject_filter, "")]
     \/ UNCHANGED <<schedulerConfig, schedulerForm>>
  /\ schedulerLoading' = IF Head(schedGets).unlock THEN FALSE ELSE schedulerLoading
  /\ UNCHANGED <<view, notification, notifyTimers, candidates, serverScheduler,
                 schedPosts, lastToggle, clearConfirmText, showClearModal, clearDeletes>>
  /\ SettingsFrame

\* The form's inputs, shown while the scheduler is enabled.
SetSchedulerForm ==
  /\ view = "settings" /\ isEnabled /\ ~showClearModal
  /\ \/ \E v \in Intervals \ {schedulerForm.interval_minutes} :
          schedulerForm' = [schedulerForm EXCEPT !.interval_minutes = v]
     \/ \E v \in SchedFolders \ {schedulerForm.folder} :
          schedulerForm' = [schedulerForm EXCEPT !.folder = v]
     \/ \E v \in SubjectFilters \ {schedulerForm.subject_filter} :
          schedulerForm' = [schedulerForm EXCEPT !.subject_filter = v]
  /\ UNCHANGED <<view, notification, notifyTimers, candidates, schedulerConfig,
                 schedulerLoading, serverScheduler, schedPosts, schedGets, lastToggle,
                 clearConfirmText, showClearModal, clearDeletes>>
  /\ SettingsFrame

\* A toggle that persisted the flag alone would send this body.
ToggleBodyFlagOnly(enabled, form) ==
  [enabled |-> ~enabled, interval_minutes |-> 30, folder |-> "INBOX",
   subject_filter |-> NULL]
\* The body of the toggle's POST /api/scheduler/config.
ToggleBody(enabled, form) ==
  [enabled |-> ~enabled,
   interval_minutes |-> form.interval_minutes,
   folder |-> OrElse(form.folder, "INBOX"),
   subject_filter |-> OrElse(form.subject_filter, NULL)]

\* The body of Save Settings.
SaveBody(form) ==
  [enabled |-> TRUE,
   interval_minutes |-> form.interval_minutes,
   folder |-> OrElse(form.folder, "INBOX"),
   subject_filter |-> OrElse(form.subject_filter, NULL)]

\* A click on the toggle switch, up to the await of its POST.
ToggleScheduler ==
  /\ view = "settings" /\ ~showClearModal
  /\ IF schedulerLoading
       THEN /\ lastToggle' = [sent |-> FALSE, flip |-> ~lastToggle.flip]
            /\ UNCHANGED <<schedulerLoading, schedPosts>>
       ELSE /\ lastToggle' = [sent |-> TRUE, flip |-> ~lastToggle.flip]
            /\ schedulerLoading' = TRUE
            /\ schedPosts' = Append(schedPosts,
                 [kind |-> "toggle", body |-> ToggleBody(isEnabled, schedulerForm)])
  /\ UNCHANGED <<view, notification, notifyTimers, candidates, schedulerConfig,
                 schedulerForm, serverScheduler, schedGets, clearConfirmText,
                 showClearModal, clearDeletes>>
  /\ SettingsFrame

\* Save Settings (disabled while schedulerLoading), up to the await of its POST.
SaveSettings ==
  /\ view = "settings" /\ isEnabled /\ ~showClearModal
  /\ ~schedulerLoading
  /\ schedulerLoading' = TRUE
  /\ schedPosts' = Append(schedPosts, [kind |-> "save", body |-> SaveBody(schedulerForm)])
  /\ UNCHANGED <<view, notification, notifyTimers, candidates, schedulerConfig,
                 schedulerForm, serverScheduler, schedGets, lastToggle,
                 clearConfirmText, showClearModal, clearDeletes>>
  /\ SettingsFrame

\* The POST of the toggle or of Save Settings returns: on success the notice
\* and loadSchedulerConfig, awaited; on failure the notice and the finally
\* block.
SchedulerPostResponse ==
  /\ schedPosts # <<>>
  /\ schedPosts' = Tail(schedPosts)
  /\ notifyTimers < MaxNotices
  /\ \/ /\ serverScheduler' = Head(schedPosts).body
        /\ Notify(IF Head(schedPosts).kind = "save" THEN "Scheduler settings saved"
                  ELSE IF Head(schedPosts).body.enabled THEN "Scheduler enabled"
                  ELSE "Scheduler disabled")
        /\ LoadSchedulerConfig(TRUE)
        /\ UNCHANGED schedulerLoading
     \/ /\ Notify(IF Head(schedPosts).kind = "save" THEN "Failed to save settings"
                  ELSE "Failed to toggle scheduler")
        /\ schedulerLoading' = FALSE
        /\ UNCHANGED <<serverScheduler, schedGets>>
  /\ UNCHANGED <<view, candidates, schedulerConfig, schedulerForm, lastToggle,
                 clearConfirmText, showClearModal, clearDeletes>>
  /\ SettingsFrame

\* What the user types into the confirmation input.
ConfirmTexts == {"", "confirm", "CONFIRM", "CONFIRM!"}

\* A guard that ignored case would enable the button for these.
DeleteEnabledAnyCase(text) == text \in {"CONFIRM", "confirm"}
\* disabled={clearConfirmText !== "CONFIRM"}
DeleteEnabled(text) == text = "CONFIRM"

\* "Clear All Data" in the settings view: the only opener of the modal.
OpenClearModal ==
  /\ view = "settings"
  /\ ~showClearModal
  /\ showClearModal' = TRUE
  /\ clearConfirmText' = ""
  /\ UNCHANGED <<view, notification, notifyTimers, candidates, schedulerConfig,
                 schedulerLoading, schedulerForm, serverScheduler, schedPosts,
                 schedGets, lastToggle, clearDeletes>>
  /\ SettingsFrame

\* The confirmation input's onChange.
SetClearConfirmText ==
  /\ showClearModal
  /\ \E text \in ConfirmTexts \ {clearConfirmText} : clearConfirmText' = text
  /\ UNCHANGED <<view, notification, notifyTimers, candidates, schedulerConfig,
                 schedulerLoading, schedulerForm, serverScheduler, schedPosts,
                 schedGets, lastToggle, showClearModal, clearDeletes>>
  /\ SettingsFrame

\* Cancel, or a click on the overlay.
CloseClearModal ==
  /\ showClearModal
  /\ showClearModal' = FALSE
  /\ UNCHANGED <<view, notification, notifyTimers, candidates, schedulerConfig,
                 schedulerLoading, schedulerForm, serverScheduler, schedPosts,
                 schedGets, lastToggle, clearConfirmText, clearDeletes>>
  /\ SettingsFrame

\* "Delete Everything", up to the await of its DELETE.
DeleteEverything ==
  /\ showClearModal
  /\ DeleteEnabled(clearConfirmText)
  /\ clearDeletes < MaxLoads
  /\ clearDeletes' = clearDeletes + 1
  /\ UNCHANGED <<view, notification, notifyTimers, candidates, schedulerConfig,
                 schedulerLoading, schedulerForm, serverScheduler, schedPosts,
                 schedGets, lastToggle, clearConfirmText, showClearModal>>
  /\ SettingsFrame

\* The DELETE returns: on success the notice, the modal closes and the
\* candidates are emptied; on failure only the notice.
ClearDataResponse ==
  /\ clearDeletes > 0
  /\ clearDeletes' = clearDeletes - 1
  /\ notifyTimers < MaxNotices
  /\ \/ /\ Notify("All data cleared")
        /\ showClearModal' = FALSE
        /\ candidates' = [c \in {} |-> 0]
     \/ /\ Notify("Failed to clear data")
        /\ UNCHANGED <<showClearModal, candidates>>
  /\ UNCHANGED <<view, schedulerConfig, schedulerLoading, schedulerForm,
                 serverScheduler, schedPosts, schedGets, lastToggle, clearConfirmText>>
  /\ SettingsFrame

NextSettings ==
  \/ DebounceAuth
  \/ NavSettings
  \/ SettingsPoll
  \/ SchedulerStatusResponse
  \/ SetSchedulerForm
  \/ ToggleScheduler
  \/ SaveSettings
  \/ SchedulerPostResponse
  \/ NotifyTimeout

SpecSettings == InitL /\ [][NextSettings]_vars

NextClear ==
  \/ DebounceAuth
  \/ PreloadResponse
  \/ NavSettings
  \/ NavAway
  \/ SchedulerStatusResponse
  \/ OpenClearModal
  \/ SetClearConfirmText
  \/ CloseClearModal
  \/ DeleteEverything
  \/ ClearDataResponse
  \/ NotifyTimeout

SpecClear == InitL /\ [][NextClear]_vars

\* ----------------------------------------------------- settings: properties
ToggleClicked == lastToggle' # lastToggle
ToggleInFlight == \E i \in 1..Len(schedPosts) : schedPosts[i].kind = "toggle"

\* C9: a toggle issues exactly one persist request, whose body holds the
\* negated enabled flag together with the form's interval_minutes, folder
\* (INBOX when the field is empty) and subject_filter (null when the field is
\* empty); no step issues more than one request; and a click on the toggle
\* while a toggle request is in flight, or while schedulerLoading, issues none.
C9_ToggleOneCombinedRequest ==
  [][/\ (ToggleClicked /\ ~schedulerLoading /\ ~ToggleInFlight) =>
          schedPosts' = Append(schedPosts,
            [kind |-> "toggle",
             body |-> [enabled |-> ~(schedulerConfig.loaded /\ schedulerConfig.enabled),
                       interval_minutes |-> schedulerForm.interval_minutes,
                       folder |-> IF schedulerForm.folder = "" THEN "INBOX"
                                  ELSE schedulerForm.folder,
                       subject_filter |-> IF schedulerForm.subject_filter = "" THEN NULL
                                          ELSE schedulerForm.subject_filter]])
     /\ (ToggleClicked /\ (schedulerLoading \/ ToggleInFlight)) => schedPosts' = schedPosts
     /\ ToggleInFlight => schedulerLoading
     /\ Len(schedPosts') <= Len(schedPosts) + 1]_vars

\* C9 witness: a toggle request with the form's edited values is in flight
\* (enabled -> disabled, interval 60, empty folder sent as INBOX) and a
\* further click on the toggle has sent nothing.
C9_Witness ==
  /\ Len(schedPosts) = 1
  /\ schedPosts[1] = [kind |-> "toggle",
                      body |-> [enabled |-> FALSE, interval_minutes |-> 60,
                                folder |-> "INBOX", subject_filter |-> "CV"]]
  /\ schedulerForm = [interval_minutes |-> 60, folder |-> "", subject_filter |-> "CV"]
  /\ ~lastToggle.sent

\* C10: the DELETE is issued only in a state whose confirmation text is
\* exactly "CONFIRM", and every opening of the modal starts with empty text.
C10_DeleteNeedsExactConfirm ==
  [][/\ clearDeletes' > clearDeletes => (showClearModal /\ clearConfirmText = "CONFIRM")
     /\ (~showClearModal /\ showClearModal') => clearConfirmText' = ""]_vars

\* C10 witness: a DELETE issued from the modal is in flight and the text in
\* the open modal now reads "confirm", for which no further DELETE can be sent.
C10_Witness ==
  /\ clearDeletes = 1
  /\ showClearModal
  /\ clearConfirmText = "confirm"

\* ================================================================== RUN NOW
RunNowFrame == UNCHANGED <<authenticated, emails, pagination, emailsFromCache, loading,
                           activeFolder, searchQuery, inboxFilters, req, nreq, preload,
                           dbStats, candidates, debounceVars, tagVars, notesVars,
                           sessionVars, shellVars, readVars, notifVars, schedulerConfig, schedulerLoading,
                           schedulerForm, serverScheduler, schedPosts, lastToggle,
                           clearConfirmText, showClearModal, clearDeletes>>

\* The Run Now button (rendered while the scheduler is enabled, disabled while
\* schedulerRunNow): the handler up to its await.
RunNowClick ==
  /\ view = "settings" /\ isEnabled /\ ~showClearModal
  /\ ~schedulerRunNow
  /\ schedulerRunNow' = TRUE
  /\ runNowReqs' = runNowReqs + 1
  /\ UNCHANGED <<runNowTimers, schedGets, notification, notifyTimers>>
  /\ RunNowFrame

\* The handler after its await, with the 3 s timeout armed only in the try
\* block.
RunNowResponseArmsOnSuccess ==
  /\ runNowReqs > 0
  /\ runNowReqs' = runNowReqs - 1
  /\ notifyTimers < MaxNotices
  /\ \/ Notify("Scrape started") /\ runNowTimers' = runNowTimers + 1
     \/ Notify("Failed to start scrape") /\ UNCHANGED runNowTimers
  /\ UNCHANGED <<schedulerRunNow, schedGets>>
  /\ RunNowFrame

\* The handler after its await: the notice of the try or of the catch block,
\* then setTimeout(..., 3000).
RunNowResponse ==
  /\ runNowReqs > 0
  /\ runNowReqs' = runNowReqs - 1
  /\ notifyTimers < MaxNotices
  /\ \/ Notify("Scrape started")
     \/ Notify("Failed to start scrape")
  /\ runNowTimers' = runNowTimers + 1
  /\ UNCHANGED <<schedulerRunNow, schedGets>>
  /\ RunNowFrame

\* The 3 s timeout fires: setSchedulerRunNow(false), then loadSchedulerConfig
\* up to its await.
RunNowTimerFires ==
  /\ runNowTimers > 0
  /\ runNowTimers' = runNowTimers - 1
  /\ schedulerRunNow' = FALSE
  /\ LoadSchedulerConfig(FALSE)
  /\ UNCHANGED <<runNowReqs, notification, notifyTimers>>
  /\ RunNowFrame

\* The scheduler is off or on at the backend when the page is opened.
InitRunNow ==
  /\ InitListing
  /\ InitDebounce
  /\ InitTagState
  /\ InitNotesState
  /\ InitSessionState
  /\ InitReadState /\ InitShellState
  /\ InitRunNowState
  /\ InitNotifState
  /\ schedulerConfig = NoConfig
  /\ schedulerLoading = FALSE
  /\ schedulerForm = [interval_minutes |-> 30, folder |-> "INBOX", subject_filter |-> ""]
  /\ serverScheduler \in {SchedulerOff, [SchedulerOff EXCEPT !.enabled = TRUE]}
  /\ schedPosts = <<>>
  /\ schedGets = <<>>
  /\ lastToggle = [sent |-> FALSE, flip |-> FALSE]
  /\ clearConfirmText = ""
  /\ showClearModal = FALSE
  /\ clearDeletes = 0

NextRunNow ==
  \/ DebounceAuth
  \/ NavSettings
  \/ NavAway
  \/ SettingsPoll
  \/ SchedulerStatusResponse
  \/ SetSchedulerForm
  \/ RunNowClick
  \/ RunNowResponse
  \/ RunNowTimerFires
  \/ NotifyTimeout

\* Every fetch settles and every timeout fires.  The run-now response and
\* timeout are held back only while the modelled number of notices or of
\* status requests is at its bound, which other steps can reach again and
\* again; they are strongly fair.
SpecRunNow ==
  /\ InitRunNow
  /\ [][NextRunNow]_vars
  /\ SF_vars(RunNowResponse)
  /\ SF_vars(RunNowTimerFires)
  /\ WF_vars(SchedulerStatusResponse)
  /\ WF_vars(NotifyTimeout)

\* ------------------------------------------------------- run now: properties
\* C21: a run-now request is sent only from a click that sets Running and
\* only while Running is not set; the response, successful or not, arms the
\* 3 s timeout, which alone clears Running and re-polls the scheduler
\* configuration; and Running is always eventually cleared.
C21_RunNowClearsAfterTimer ==
  /\ [][/\ runNowReqs' > runNowReqs => (~schedulerRunNow /\ schedulerRunNow')
        /\ runNowReqs' < runNowReqs => (runNowTimers' = runNowTimers + 1 /\ schedulerRunNow')
        /\ (schedulerRunNow /\ ~schedulerRunNow') =>
             /\ runNowTimers' = runNowTimers - 1
             /\ Len(schedGets') = Len(schedGets) + 1]_vars
  /\ [](schedulerRunNow <=> runNowReqs + runNowTimers = 1)
  /\ (schedulerRunNow ~> ~schedulerRunNow)

\* C21 witness: the run-now request has failed, its notice is shown, and the
\* button still reads Running while the 3 s timeout is pending.
C21_Witness ==
  /\ schedulerRunNow
  /\ runNowReqs = 0
  /\ runNowTimers = 1
  /\ notification = "Failed to start scrape"

\* ============================================================== DESKTOP SHELL
\* electron/main.js: the whenReady callback, the backend child, the windows
\* and the tray.  The React state is left alone.

ShellFrame == UNCHANGED <<listingVars, candidates, debounceVars, tagVars, notesVars,
                          sessionVars, readVars, runVars, notifVars, settingsVars>>

\* The tail of the whenReady callback: createWindow, createTray, the splash
\* closed, mainWindow.show().
FinishStartup ==
  /\ mainWindow' = "shown"
  /\ tray' = TRUE
  /\ splashWindow' = "closed"
  /\ startup' = "done"

\* `if (backendProcess) backendProcess.kill()`
KillBackend == killSent' = (killSent \/ backendProcess # NULL)

\* startBackend after `await isPortInUse(8000)`: return when the port is
\* busy; otherwise create .env from the template when it is missing
\* (copyFileSync throws when the directory cannot be written), spawn the
\* backend and register the exit handler; then waitForBackend arms the 3 s
\* timer of its first check.  An exception leaves the whenReady callback,
\* whose `await startBackend()` stands outside the try block.
StartBackendResponse ==
  /\ ~appQuit
  /\ startup = "portCheck"
  /\ \E busy, needCopy, copyOk \in BOOLEAN :
       IF busy
         THEN /\ portBusy' = "busy"
              /\ startup' = "waiting"
              /\ UNCHANGED <<backendProcess, childRunning, spawns>>
         ELSE /\ portBusy' = "free"
              /\ IF needCopy /\ ~copyOk
                   THEN /\ startup' = "failed"
                        /\ UNCHANGED <<backendProcess, childRunning, spawns>>
                   ELSE /\ backendProcess' = "child"
                        /\ childRunning' = TRUE
                        /\ spawns' = spawns + 1
                        /\ startup' = "waiting"
  /\ UNCHANGED <<killSent, checksLeft, checksMade, waitSettled, splashWindow,
                 mainWindow, tray, isQuiting, quitRequests, appQuit>>
  /\ ShellFrame

\* The timer of check(n) fires: http.get(BACKEND_URL/docs).
CheckTimerFires ==
  /\ ~appQuit
  /\ startup = "waiting"
  /\ startup' = "checking"
  /\ checksMade' = checksMade + 1
  /\ UNCHANGED <<portBusy, backendProcess, childRunning, killSent, spawns,
                 checksLeft, waitSettled, splashWindow, mainWindow, tray,
                 isQuiting, quitRequests, appQuit>>
  /\ ShellFrame

\* The health check is answered: 200 resolves; another status or an error
\* re-arms the timer while n > 0 and rejects at n = 0.  The whenReady
\* callback continues on either settlement.
CheckAnswered ==
  /\ ~appQuit
  /\ startup = "checking"
  /\ \E answer \in {"200", "other", "error"} :
       IF answer = "200"
         THEN /\ waitSettled' = "resolved"
              /\ FinishStartup
              /\ UNCHANGED checksLeft
         ELSE IF checksLeft > 0
           THEN /\ checksLeft' = checksLeft - 1
                /\ startup' = "waiting"
                /\ UNCHANGED <<waitSettled, mainWindow, tray, splashWindow>>
           ELSE /\ waitSettled' = "rejected"
                /\ FinishStartup
                /\ UNCHANGED checksLeft
  /\ UNCHANGED <<portBusy, backendProcess, childRunning, killSent, spawns,
                 checksMade, isQuiting, quitRequests, appQuit>>
  /\ ShellFrame

\* The child exits (crash, or after a kill): backendProcess.on('exit').
ChildExits ==
  /\ childRunning
  /\ childRunning' = FALSE
  /\ backendProcess' = NULL
  /\ UNCHANGED <<startup, portBusy, killSent, spawns, checksLeft, checksMade,
                 waitSettled, splashWindow, mainWindow, tray, isQuiting,
                 quitRequests, appQuit>>
  /\ ShellFrame

\* The user closes the main window: mainWindow.on('close').
CloseMainWindow ==
  /\ ~appQuit
  /\ mainWindow = "shown"
  /\ mainWindow' = IF isQuiting THEN "closed" ELSE "hidden"
  /\ UNCHANGED <<startup, portBusy, backendProcess, childRunning, killSent,
                 spawns, checksLeft, checksMade, waitSettled, splashWindow, tray,
                 isQuiting, quitRequests, appQuit>>
  /\ ShellFrame

\* Tray click / "Open Mail Scraper".
TrayOpen ==
  /\ ~appQuit
  /\ tray /\ mainWindow = "hidden"
  /\ mainWindow' = "shown"
  /\ UNCHANGED <<startup, portBusy, backendProcess, childRunning, killSent,
                 spawns, checksLeft, checksMade, waitSettled, splashWindow, tray,
                 isQuiting, quitRequests, appQuit>>
  /\ ShellFrame

\* Tray "Quit": isQuiting, kill, app.quit(); before-quit kills again, the
\* close handler lets the window close.
TrayQuit ==
  /\ ~appQuit
  /\ tray
  /\ quitRequests < MaxQuits
  /\ isQuiting' = TRUE
  /\ KillBackend
  /\ quitRequests' = quitRequests + 1
  /\ mainWindow' = "closed"
  /\ appQuit' = TRUE
  /\ UNCHANGED <<startup, portBusy, backendProcess, childRunning, spawns,
                 checksLeft, checksMade, waitSettled, splashWindow, tray>>
  /\ ShellFrame

\* A quit that does not come from the tray (application menu, dock, Cmd+Q):
\* before-quit kills the child, then the windows are asked to close.  The
\* main window's close handler, with isQuiting unset, prevents the close and
\* with it the quit; without a main window the app quits.
BeforeQuit ==
  /\ ~appQuit
  /\ quitRequests < MaxQuits
  /\ quitRequests' = quitRequests + 1
  /\ KillBackend
  /\ IF mainWindow \in {"shown", "hidden"}
       THEN /\ mainWindow' = "hidden"
            /\ UNCHANGED <<appQuit, splashWindow>>
       ELSE /\ appQuit' = TRUE
            /\ splashWindow' = "closed"
            /\ UNCHANGED mainWindow
  /\ UNCHANGED <<startup, portBusy, backendProcess, childRunning, spawns,
                 checksLeft, checksMade, waitSettled, tray, isQuiting>>
  /\ ShellFrame

NextDesktop ==
  \/ StartBackendResponse
  \/ CheckTimerFires
  \/ CheckAnswered
  \/ ChildExits
  \/ CloseMainWindow
  \/ TrayOpen
  \/ TrayQuit
  \/ BeforeQuit

\* The port check settles, timers fire and every health check is answered.
SpecDesktop ==
  /\ InitL
  /\ [][NextDesktop]_vars
  /\ WF_vars(StartBackendResponse)
  /\ WF_vars(CheckTimerFires)
  /\ WF_vars(CheckAnswered)

\* --------------------------------------------------- desktop shell: properties

\* C29: startup ends with the main window shown.  waitForBackend settles in
\* the step of a health check's answer, rejects only after Retries + 1
\* checks, sends no check once settled, and whichever way it settles the
\* window and the tray are created and the splash is closed; and every run
\* that is not quit gets there.
C29_StartupAlwaysShowsWindow ==
  /\ [][/\ waitSettled' # waitSettled =>
             /\ waitSettled = "none" /\ startup = "checking"
             /\ mainWindow' = "shown" /\ tray' /\ splashWindow' = "closed"
        /\ waitSettled' = "rejected" => checksMade' = Retries + 1
        /\ waitSettled # "none" => checksMade' = checksMade]_vars
  /\ [](checksMade <= Retries + 1)
  /\ <>(mainWindow = "shown" \/ appQuit)

\* C30: one backend child per run at most: none when the port is busy, one
\* when it is free; the handle is null again when the child exits; a quit
\* request kills a child that is still there; and closing the main window
\* hides it, with the backend and the app left running.
C30_OneSupervisedBackend ==
  /\ [](spawns <= 1)
  /\ [][/\ (portBusy = "unknown" /\ portBusy' = "busy") =>
             spawns' = 0 /\ backendProcess' = NULL
        /\ (portBusy = "unknown" /\ portBusy' = "free") =>
             spawns' = 1 /\ backendProcess' = "child"
        /\ (childRunning /\ ~childRunning') => backendProcess' = NULL
        /\ (quitRequests' > quitRequests /\ backendProcess # NULL) => killSent'
        /\ (mainWindow = "shown" /\ mainWindow' # "shown"
              /\ quitRequests' = quitRequests) =>
             /\ mainWindow' = "hidden"
             /\ ~appQuit'
             /\ UNCHANGED <<backendProcess, childRunning, killSent>>]_vars

====
